---- MODULE Spec2Model ----
(***************************************************************************)
(* A model of the analytics service of hyperlit (src/analytics).           *)
(*                                                                         *)
(* Part 1, the Backtest Job Tracker: AnalyticsEngine.active_backtests and  *)
(* the coroutines start_backtest / execute_backtest that advance it.       *)
(* Part 2, the Prediction Pipeline: MLPredictor's model bundle and the     *)
(* coroutines predict_leader_performance / retrain_models that read and    *)
(* write it on the asyncio event loop.                                     *)
(* Part 3, the calculators: the pure functions that turn trades and        *)
(* preferences into metrics, risk levels, confidences and settings, the    *)
(* facade operations built on them, and the engine's health check.         *)
(*                                                                         *)
(* The service runs on one asyncio event loop: a coroutine runs until it   *)
(* awaits something that really suspends (database I/O, asyncio.sleep);    *)
(* awaiting a coroutine that never suspends runs it inline.                *)
(***************************************************************************)
EXTENDS Integers, Sequences, FiniteSets, TLC

(***************************************************************************)
(* Bounds of the model.                                                    *)
(***************************************************************************)
\* number of jobs start_backtest may create
MaxJobs == 2
\* number of activations of execute_backtest
MaxExecs == 2
\* number of activations of predict_leader_performance / retrain_models
MaxTasks == 2

JobIds == 1..MaxJobs
Activations == 1..MaxExecs
\* the leader_address argument of start_backtest (the rest of the
\* configuration snapshot is carried the same way and is not modelled)
Leaders == {"0xA", "0xB"}

VARIABLES
    active_backtests,   \* AnalyticsEngine.active_backtests: id -> job record
    nextId,             \* the next value uuid.uuid4() hands out
    clock,              \* datetime.utcnow(), a strictly increasing reading
    execs,              \* the activations of execute_backtest: pc and argument
    is_trained,         \* MLPredictor.is_trained, per predictor instance
    models,             \* MLPredictor.models: performance_model, profit_model
    scalers,            \* MLPredictor.scalers["feature_scaler"]
    feature_importance, \* MLPredictor.feature_importance["performance_model"]
    model_versions,     \* MLPredictor.model_versions["performance_model"]
    rng,                \* numpy's process-wide random stream: the next block
    tasks,              \* the activations of predict / retrain
    running,            \* the task the event loop is running, 0 when none
    call                \* the last call of a calculator: name, arguments, value

jobVars == <<active_backtests, nextId, clock, execs>>

mlVars == <<is_trained, models, scalers, feature_importance, model_versions,
            rng, tasks, running>>

calcVars == <<call>>

vars == <<active_backtests, nextId, clock, execs, is_trained, models, scalers,
          feature_importance, model_versions, rng, tasks, running, call>>

(***************************************************************************)
(* Job records.  A Python dict key that is not present is modelled by 0    *)
(* for a timestamp and by "absent" for results and error.                  *)
(***************************************************************************)
NoTime == 0
Absent == "absent"
MockResults == "mock_results"
ErrorText == "str(e)"

\* start_backtest, the record stored under the new id
NewJob(leader, now) ==
    [ status         |-> "queued",
      leader_address |-> leader,
      created_at     |-> now,
      progress       |-> 0,
      started_at     |-> NoTime,
      completed_at   |-> NoTime,
      results        |-> Absent,
      error          |-> Absent ]

\* the start time lost from the step that sets running
SetRunningNoStart(job, now) == [job EXCEPT !.status = "running"]

\* execute_backtest before the delay: config["status"], config["started_at"]
SetRunning(job, now) ==
    [job EXCEPT !.status = "running", !.started_at = now]

\* a status update lost from the success path
SetCompletedNoStatus(job, now) ==
    [job EXCEPT !.completed_at = now, !.results = MockResults]

\* a progress figure moved to 100 on completion
SetCompletedWithProgress(job, now) ==
    [job EXCEPT !.status = "completed", !.completed_at = now,
                !.results = MockResults, !.progress = 100]

\* execute_backtest after the delay: status, completed_at, results
SetCompleted(job, now) ==
    [job EXCEPT !.status = "completed", !.completed_at = now,
                !.results = MockResults]

\* an except branch that records the error and leaves the status
SetFailedNoStatus(job) == [job EXCEPT !.error = ErrorText]

\* execute_backtest, the except branch: status and error
SetFailed(job) ==
    [job EXCEPT !.status = "failed", !.error = ErrorText]

\* one record shared by every id of the table
StoreConfigShared(table, id, job) ==
    [j \in DOMAIN table |-> job]

\* config = self.active_backtests[backtest_id]: the record written is the one
\* stored under backtest_id
StoreConfig(table, id, job) ==
    [table EXCEPT ![id] = job]

InitJobs ==
    /\ active_backtests = <<>>
    /\ nextId = 1
    /\ clock = 1
    /\ execs = [a \in Activations |-> [pc |-> "idle", id |-> 0]]

\* start_backtest(leader_address, ...): runs without suspending
StartBacktest(leader) ==
    /\ nextId <= MaxJobs
    /\ active_backtests' = active_backtests @@ (nextId :> NewJob(leader, clock))
    /\ nextId' = nextId + 1
    /\ clock' = clock + 1
    /\ UNCHANGED execs
    /\ UNCHANGED mlVars
    /\ UNCHANGED calcVars

\* execute_backtest(id) on an id that is not in the table: returns at once
ExecuteUnknown(a, id) ==
    /\ execs[a].pc = "idle"
    /\ id \notin DOMAIN active_backtests
    /\ execs' = [execs EXCEPT ![a] = [pc |-> "returned", id |-> id]]
    /\ UNCHANGED <<active_backtests, nextId, clock>>
    /\ UNCHANGED mlVars
    /\ UNCHANGED calcVars

\* execute_backtest(id) up to the await asyncio.sleep(5)
ExecuteBegin(a, id) ==
    /\ execs[a].pc = "idle"
    /\ id \in DOMAIN active_backtests
    /\ active_backtests' =
          StoreConfig(active_backtests, id, SetRunning(active_backtests[id], clock))
    /\ clock' = clock + 1
    /\ execs' = [execs EXCEPT ![a] = [pc |-> "sleep", id |-> id]]
    /\ UNCHANGED nextId
    /\ UNCHANGED mlVars
    /\ UNCHANGED calcVars

\* the delay returns: the rest of the try block
SleepReturns(a) ==
    /\ execs[a].pc = "sleep"
    /\ LET id == execs[a].id IN
          active_backtests' =
             StoreConfig(active_backtests, id, SetCompleted(active_backtests[id], clock))
    /\ clock' = clock + 1
    /\ execs' = [execs EXCEPT ![a].pc = "done"]
    /\ UNCHANGED nextId
    /\ UNCHANGED mlVars
    /\ UNCHANGED calcVars

\* the delay raises an Exception: the except branch
SleepRaises(a) ==
    /\ execs[a].pc = "sleep"
    /\ LET id == execs[a].id IN
          active_backtests' =
             IF id \in DOMAIN active_backtests
             THEN StoreConfig(active_backtests, id, SetFailed(active_backtests[id]))
             ELSE active_backtests
    /\ execs' = [execs EXCEPT ![a].pc = "done"]
    /\ UNCHANGED <<nextId, clock>>
    /\ UNCHANGED mlVars
    /\ UNCHANGED calcVars

NextJobs ==
    \/ \E leader \in Leaders : StartBacktest(leader)
    \/ \E a \in Activations, id \in JobIds : ExecuteUnknown(a, id)
    \/ \E a \in Activations, id \in JobIds : ExecuteBegin(a, id)
    \/ \E a \in Activations : SleepReturns(a)
    \/ \E a \in Activations : SleepRaises(a)

(***************************************************************************)
(* Properties of the Backtest Job Tracker.                                 *)
(***************************************************************************)
Terminal == {"completed", "failed"}

\* the activations of execute_backtest(id) that found the job, in table ex
InvocationsIn(ex, id) ==
    {a \in Activations : ex[a].pc \in {"sleep", "done"} /\ ex[a].id = id}

\* the activations of execute_backtest(id) suspended at the delay
Sleeping(id) ==
    {a \in Activations : execs[a].pc = "sleep" /\ execs[a].id = id}

\* where a job executed at most once stands: queued before the call, running
\* while the call sleeps, terminal once it has returned
OnceState(id) ==
    LET inv == InvocationsIn(execs, id)
        st  == active_backtests[id].status
    IN  /\ inv = {} => st = "queued"
        /\ \A a \in inv : execs[a].pc = "sleep" => st = "running"
        /\ \A a \in inv : execs[a].pc = "done" => st \in Terminal

\* the status of a job executed at most once only moves forward
OnceStep(id) ==
    IF id \notin DOMAIN active_backtests
    THEN active_backtests'[id].status = "queued"
    ELSE LET s == active_backtests[id].status
             t == active_backtests'[id].status
         IN  /\ s = "queued" => t \in {"queued", "running"}
             /\ s = "running" => t \in {"running"} \cup Terminal
             /\ s \in Terminal => t = s

\* C1: a job created by start_backtest on which execute_backtest is invoked
\* exactly once goes queued, then running, then completed or failed: it is
\* created queued, is running exactly while its one execution sleeps, is
\* terminal once that execution has returned, and never leaves the terminal
\* status.
C1_Lifecycle ==
    /\ [](\A id \in DOMAIN active_backtests :
              Cardinality(InvocationsIn(execs, id)) <= 1 => OnceState(id))
    /\ [][\A id \in DOMAIN active_backtests' :
              Cardinality(InvocationsIn(execs', id)) <= 1 => OnceStep(id)]_vars

\* a job executed exactly once has completed
C1_Witness ==
    \E id \in DOMAIN active_backtests :
        /\ Cardinality(InvocationsIn(execs, id)) = 1
        /\ \A a \in InvocationsIn(execs, id) : execs[a].pc = "done"
        /\ active_backtests[id].status = "completed"

\* C2: an invocation of execute_backtest on a job that is already running,
\* completed or failed is a no-op: the job's record is unchanged by it.
C2_SecondStartNoOp ==
    [][\A a \in Activations, id \in DOMAIN active_backtests :
          ( /\ execs[a].pc = "idle"
            /\ execs'[a].pc = "sleep"
            /\ execs'[a].id = id
            /\ active_backtests[id].status \in {"running"} \cup Terminal )
          => active_backtests'[id] = active_backtests[id]]_vars

\* C3: for any job id at most one activation of execute_backtest is between
\* its 'set running' step and its 'set completed/failed' step.
C3_MutualExclusion ==
    \A id \in JobIds : Cardinality(Sleeping(id)) <= 1

\* C4: every step of start_backtest and execute_backtest changes only the
\* record of the job it concerns: a record that changes belongs to the id of
\* the activation that took the step, and no record is ever removed.
C4_Frame ==
    [][\A id \in DOMAIN active_backtests :
          /\ id \in DOMAIN active_backtests'
          /\ active_backtests'[id] # active_backtests[id]
                => \E a \in Activations :
                      execs'[a] # execs[a] /\ execs'[a].id = id]_vars

\* two jobs, one taken to completed while the other is still as created
C4_Witness ==
    \E i, j \in DOMAIN active_backtests :
        /\ i # j
        /\ active_backtests[i].status = "completed"
        /\ active_backtests[j].status = "queued"
        /\ InvocationsIn(execs, j) = {}

(***************************************************************************)
(* Part 2: the Prediction Pipeline (MLPredictor).                          *)
(***************************************************************************)
Tasks == 1..MaxTasks
\* the MLPredictor instances: api.py's module-level ml_predictor and the one
\* analyze_leader_performance constructs
Predictors == {"api", "engine"}
\* horizon_days and confidence_threshold (in tenths) of a predict call
Horizons == {7, 14}
Thresholds == {5, 7}

\* len(trades) < 20
MinTrades == 20
\* len(training_data) < 100
MinTrainingSamples == 100
\* np.random.randn(100, 18)
DummyFeatureCount == 18

\* the trade histories the ledger returns: <<number of trades, number of
\* trading days, price>>; trade i is a sell when i is odd and a buy when even,
\* of size 1, on day (i - 1) mod days
Histories == {<<0, 1, 1>>, <<19, 2, 1>>, <<20, 1, 1>>, <<21, 3, 1>>, <<21, 3, 100>>}

TradesOf(h) ==
    [i \in 1..h[1] |->
        [ side  |-> IF i % 2 = 1 THEN "sell" ELSE "buy",
          size  |-> 1,
          price |-> h[3],
          day   |-> (i - 1) % h[2] ]]

\* df['pnl']: size * price for a sell, -size * price otherwise
Pnl(t) == IF t.side = "sell" THEN t.size * t.price ELSE -(t.size * t.price)

RECURSIVE SumOver(_, _)
SumOver(f, S) ==
    IF S = {} THEN 0
    ELSE LET x == CHOOSE y \in S : TRUE IN f[x] + SumOver(f, S \ {x})

RECURSIVE SortSet(_)
SortSet(S) ==
    IF S = {} THEN <<>>
    ELSE LET m == CHOOSE x \in S : \A y \in S : x <= y
         IN  <<m>> \o SortSet(S \ {m})

\* df.groupby(df['executed_at'].dt.date)['pnl'].sum(), in date order
DailyPnl(trades) ==
    LET days == SortSet({trades[i].day : i \in DOMAIN trades})
    IN  [k \in DOMAIN days |->
            SumOver([i \in DOMAIN trades |-> Pnl(trades[i])],
                    {i \in DOMAIN trades : trades[i].day = days[k]})]

\* daily_pnl.std(), the sample standard deviation: NaN on fewer than two
\* days; the value is kept as far as the code reads it (volatility > 10)
Volatility(trades) ==
    LET x == DailyPnl(trades)
        n == Len(x)
        S == SumOver(x, DOMAIN x)
        Q == SumOver([k \in DOMAIN x |-> x[k] * x[k]], DOMAIN x)
    IN  [ defined |-> n >= 2,
          gt10    |-> n >= 2 /\ n * Q - S * S > 100 * n * (n - 1) ]

\* daily_pnl.pct_change().dropna().tail(7).mean() is a finite number: 0/0 is
\* NaN and dropped, x/0 is infinite and kept, the mean of nothing is NaN
MomentumFinite(trades) ==
    LET x == DailyPnl(trades)
        kept == {k \in 2..Len(x) : ~(x[k - 1] = 0 /\ x[k] = 0)}
        last7 == {k \in kept : Cardinality({j \in kept : j > k}) < 7}
    IN  kept # {} /\ \A k \in last7 : x[k - 1] # 0

\* _extract_features: None on an empty frame, else the feature record; of its
\* entries the model keeps those the pipeline branches on, and whether the
\* two that can be NaN or infinite on twenty trades or more are finite
ExtractFeatures(trades) ==
    [ present         |-> trades # <<>>,
      total_trades    |-> Len(trades),
      trading_days    |-> Cardinality({trades[i].day : i \in DOMAIN trades}),
      volatility      |-> Volatility(trades),
      momentum_finite |-> MomentumFinite(trades) ]

\* the feature vector with trading_days appended, one column too many
FeatureNamesWithDays ==
    << "total_pnl", "win_rate", "avg_win", "avg_loss", "profit_factor",
       "volatility", "momentum", "max_consecutive_losses", "drawdown",
       "avg_trades_per_day", "trade_size_variance", "unique_assets",
       "asset_concentration", "most_active_hour", "weekend_trading_ratio",
       "recent_win_rate", "recent_avg_pnl", "total_trades", "trading_days" >>

\* _make_predictions: the columns of feature_array, in order
FeatureNames ==
    << "total_pnl", "win_rate", "avg_win", "avg_loss", "profit_factor",
       "volatility", "momentum", "max_consecutive_losses", "drawdown",
       "avg_trades_per_day", "trade_size_variance", "unique_assets",
       "asset_concentration", "most_active_hour", "weekend_trading_ratio",
       "recent_win_rate", "recent_avg_pnl", "total_trades" >>

(***************************************************************************)
(* The model bundle.  An estimator (scaler, regressor, classifier) is       *)
(* absent, present and unfitted, or fitted: fitted_on is the block of the   *)
(* random stream it was fitted on (0: unfitted) and n_features the number   *)
(* of columns of that data.                                                 *)
(***************************************************************************)
NoEstimator == [present |-> FALSE, fitted_on |-> 0, n_features |-> 0]
NewEstimator == [present |-> TRUE, fitted_on |-> 0, n_features |-> 0]

\* a fit that leaves the estimator as it was
FitSkipped(est, block, ncols) == est

\* estimator.fit(X): X is the dummy data of `block`, with ncols columns
Fit(est, block, ncols) ==
    [est EXCEPT !.fitted_on = block, !.n_features = ncols]

NoVersion == "1.0"
PretrainedVersion == "pretrained_1.0"

\* _prepare_training_data: always the empty list
PrepareTrainingData == <<>>

\* not training_data or len(training_data) < 100
Insufficient(training_data) ==
    training_data = <<>> \/ Len(training_data) < MinTrainingSamples

\* a gate that lets nineteen trades through
BelowGateOffByOne(trades) == Len(trades) < MinTrades - 1

\* len(trades) < 20
BelowGate(trades) == Len(trades) < MinTrades

\* why scaler.transform / predict / predict_proba raise on the feature array,
\* "no" when they do not: a missing dict key, an unfitted estimator, a column
\* count other than the fitted one, a NaN or infinite feature
QueryError(scaler, mods, features) ==
    LET ests == {scaler, mods.performance_model, mods.profit_model} IN
    IF \E e \in ests : ~e.present THEN "missing"
    ELSE IF \E e \in ests : e.fitted_on = 0 THEN "unfitted"
    ELSE IF \E e \in ests : e.n_features # Len(FeatureNames) THEN "shape"
    ELSE IF ~features.volatility.defined \/ ~features.momentum_finite
         THEN "nonfinite"
    ELSE "no"

\* predict_proba(...)[0][1] in tenths: the classifier's output is a fixed
\* function of the data it was fitted on and of the input; this table stands
\* for it
PredictProba(block, features) ==
    <<2, 5, 8>>[((block + features.total_trades) % 3) + 1]

\* _make_predictions.  return_pct and max_drawdown_pct are what the regressor
\* gives on the scaled features, times horizon_days / 7: a fixed function of
\* the data the scaler and the regressor were fitted on, of the features and
\* of the horizon, carried here as fitted_on and horizon.  The except branch
\* returns the constants 0.0, 0.5, 5.0.
MakePredictions(scaler, mods, features, horizon) ==
    IF QueryError(scaler, mods, features) # "no"
    THEN [ source |-> "defaults",
           fitted_on |-> <<0, 0, 0>>,
           horizon |-> 0,
           profit_probability |-> 5,
           error |-> QueryError(scaler, mods, features) ]
    ELSE [ source |-> "models",
           fitted_on |-> <<scaler.fitted_on, mods.performance_model.fitted_on,
                           mods.profit_model.fitted_on>>,
           horizon |-> horizon,
           profit_probability |-> PredictProba(mods.profit_model.fitted_on, features),
           error |-> "no" ]

Bit(b) == IF b THEN 1 ELSE 0
Min(a, b) == IF a < b THEN a ELSE b
Max(a, b) == IF a > b THEN a ELSE b

ConfidenceNoPenalty(features, predictions) ==
    LET c == 5 + Bit(features.total_trades > 50) + Bit(features.total_trades > 100)
               + Bit(features.trading_days > 30) + Bit(features.trading_days > 60)
               + Bit(predictions.profit_probability > 7
                     \/ predictions.profit_probability < 3)
    IN  Min(Max(c, 0), 10)

\* _calculate_prediction_confidence, in tenths; a comparison with NaN is false
Confidence(features, predictions) ==
    LET c == 5 + Bit(features.total_trades > 50) + Bit(features.total_trades > 100)
               + Bit(features.trading_days > 30) + Bit(features.trading_days > 60)
               + Bit(predictions.profit_probability > 7
                     \/ predictions.profit_probability < 3)
               - Bit(features.volatility.defined /\ features.volatility.gt10)
    IN  Min(Max(c, 0), 10)

NoPredictions ==
    [source |-> "none", fitted_on |-> <<0, 0, 0>>, horizon |-> 0,
     profit_probability |-> 0, error |-> "no"]

\* what predict_leader_performance returns: None, or the result dict (beside
\* None stand the locals predictions and confidence of the call)
NoneResult ==
    [kind |-> "none", predictions |-> NoPredictions, confidence |-> 0,
     feature_importance |-> 0, model_version |-> NoVersion]

PendingResult == [NoneResult EXCEPT !.kind = "pending"]

PredictionResultUnfiltered(scaler, mods, importance, version, features, horizon, threshold) ==
    LET predictions == MakePredictions(scaler, mods, features, horizon)
        confidence == Confidence(features, predictions)
    IN  [kind |-> "result", predictions |-> predictions,
         confidence |-> confidence, feature_importance |-> importance,
         model_version |-> version]

\* predict_leader_performance from the call of _make_predictions on
PredictionResult(scaler, mods, importance, version, features, horizon, threshold) ==
    LET predictions == MakePredictions(scaler, mods, features, horizon)
        confidence == Confidence(features, predictions)
    IN  IF confidence < threshold
        THEN [NoneResult EXCEPT !.predictions = predictions,
                                !.confidence = confidence]
        ELSE [kind |-> "result", predictions |-> predictions,
              confidence |-> confidence, feature_importance |-> importance,
              model_version |-> version]

\* the awaits that suspend the coroutine: the ledger query of
\* predict_leader_performance.  _train_models, _prepare_training_data,
\* _load_pretrained_models and _make_predictions await nothing that suspends.
SuspendsInFit(pc) == pc \in {"get_trades", "fit_models"}

Suspends(pc) == pc = "get_trades"

IdleTask ==
    [op |-> "none", p |-> "api", pc |-> "idle", horizon |-> 0, threshold |-> 0,
     hist |-> <<0, 1, 1>>, trained_here |-> FALSE, dummy |-> 0,
     result |-> PendingResult]

InitML ==
    /\ is_trained = [p \in Predictors |-> FALSE]
    /\ models = [p \in Predictors |->
                    [performance_model |-> NoEstimator, profit_model |-> NoEstimator]]
    /\ scalers = [p \in Predictors |-> NoEstimator]
    /\ feature_importance = [p \in Predictors |-> 0]
    /\ model_versions = [p \in Predictors |-> NoVersion]
    /\ rng = 1
    /\ tasks = [t \in Tasks |-> IdleTask]
    /\ running = 0

\* the event loop runs task t: it holds the loop, or the loop is free and t
\* is suspended at an await that has completed
Scheduled(t) ==
    \/ running = t
    \/ running = 0 /\ tasks[t].pc # "idle" /\ tasks[t].pc # "done"
                   /\ Suspends(tasks[t].pc)

\* who holds the loop once the running task stands at pc
Holder(t, pc) == IF pc = "done" \/ Suspends(pc) THEN 0 ELSE t

\* predict_leader_performance(leader, horizon_days, confidence_threshold) up
\* to the await of db.get_leader_trades
StartPredict(t, p, horizon, threshold) ==
    /\ running = 0
    /\ tasks[t].pc = "idle"
    /\ tasks' = [tasks EXCEPT ![t] = [IdleTask EXCEPT !.op = "predict", !.p = p,
                    !.pc = "get_trades", !.horizon = horizon,
                    !.threshold = threshold]]
    /\ running' = Holder(t, "get_trades")
    /\ UNCHANGED <<is_trained, models, scalers, feature_importance,
                   model_versions, rng>>
    /\ UNCHANGED jobVars
    /\ UNCHANGED calcVars

\* the ledger returns h (the empty list when the query raised): fewer than
\* 20 trades, or no features, return None
RejectedByGate(t, h) ==
    /\ Scheduled(t)
    /\ tasks[t].pc = "get_trades"
    /\ BelowGate(TradesOf(h)) \/ ~ExtractFeatures(TradesOf(h)).present
    /\ tasks' = [tasks EXCEPT ![t].hist = h, ![t].pc = "done",
                              ![t].result = NoneResult]
    /\ running' = Holder(t, "done")
    /\ UNCHANGED <<is_trained, models, scalers, feature_importance,
                   model_versions, rng>>
    /\ UNCHANGED jobVars
    /\ UNCHANGED calcVars

NeedsTrainingAlways(trained) == TRUE

\* if not self.is_trained
NeedsTraining(trained) == ~trained

\* the ledger returns h, the gate passes, features are extracted:
\* if not self.is_trained: await self._train_models()
PassGate(t, h) ==
    /\ Scheduled(t)
    /\ tasks[t].pc = "get_trades"
    /\ ~BelowGate(TradesOf(h))
    /\ ExtractFeatures(TradesOf(h)).present
    /\ LET train == NeedsTraining(is_trained[tasks[t].p])
           pc == IF train THEN "prepare" ELSE "make_predictions"
       IN  /\ tasks' = [tasks EXCEPT ![t].hist = h, ![t].pc = pc,
                           ![t].trained_here = train]
           /\ running' = Holder(t, pc)
    /\ UNCHANGED <<is_trained, models, scalers, feature_importance,
                   model_versions, rng>>
    /\ UNCHANGED jobVars
    /\ UNCHANGED calcVars

\* retrain_models: self.is_trained = False; await self._train_models()
StartRetrain(t, p) ==
    /\ running = 0
    /\ tasks[t].pc = "idle"
    /\ is_trained' = [is_trained EXCEPT ![p] = FALSE]
    /\ tasks' = [tasks EXCEPT ![t] = [IdleTask EXCEPT !.op = "retrain", !.p = p,
                    !.pc = "prepare", !.trained_here = TRUE]]
    /\ running' = Holder(t, "prepare")
    /\ UNCHANGED <<models, scalers, feature_importance, model_versions, rng>>
    /\ UNCHANGED jobVars
    /\ UNCHANGED calcVars

\* _train_models: the training data is insufficient, so the models are loaded
\* by _load_pretrained_models.  (_prepare_training_data returns [], so the
\* fit on real data that follows in _train_models is never reached.)
TrainFallsBack(t) ==
    /\ Scheduled(t)
    /\ tasks[t].pc = "prepare"
    /\ Insufficient(PrepareTrainingData)
    /\ tasks' = [tasks EXCEPT ![t].pc = "load_models"]
    /\ running' = Holder(t, "load_models")
    /\ UNCHANGED <<is_trained, models, scalers, feature_importance,
                   model_versions, rng>>
    /\ UNCHANGED jobVars
    /\ UNCHANGED calcVars

\* _load_pretrained_models: the two new, unfitted models
LoadModels(t) ==
    /\ Scheduled(t)
    /\ tasks[t].pc = "load_models"
    /\ models' = [models EXCEPT ![tasks[t].p] =
                    [performance_model |-> NewEstimator, profit_model |-> NewEstimator]]
    /\ tasks' = [tasks EXCEPT ![t].pc = "load_scaler"]
    /\ running' = Holder(t, "load_scaler")
    /\ UNCHANGED <<is_trained, scalers, feature_importance, model_versions, rng>>
    /\ UNCHANGED jobVars
    /\ UNCHANGED calcVars

\* _load_pretrained_models: the new, unfitted scaler
LoadScaler(t) ==
    /\ Scheduled(t)
    /\ tasks[t].pc = "load_scaler"
    /\ scalers' = [scalers EXCEPT ![tasks[t].p] = NewEstimator]
    /\ tasks' = [tasks EXCEPT ![t].pc = "draw"]
    /\ running' = Holder(t, "draw")
    /\ UNCHANGED <<is_trained, models, feature_importance, model_versions, rng>>
    /\ UNCHANGED jobVars
    /\ UNCHANGED calcVars

\* _load_pretrained_models: dummy_X, dummy_y_return, dummy_y_profit are the
\* next block of numpy's random stream, which nothing seeds
DrawDummy(t) ==
    /\ Scheduled(t)
    /\ tasks[t].pc = "draw"
    /\ tasks' = [tasks EXCEPT ![t].dummy = rng, ![t].pc = "fit_scaler"]
    /\ rng' = rng + 1
    /\ running' = Holder(t, "fit_scaler")
    /\ UNCHANGED <<is_trained, models, scalers, feature_importance, model_versions>>
    /\ UNCHANGED jobVars
    /\ UNCHANGED calcVars

\* _load_pretrained_models: self.scalers["feature_scaler"].fit(dummy_X)
FitScaler(t) ==
    /\ Scheduled(t)
    /\ tasks[t].pc = "fit_scaler"
    /\ scalers' = [scalers EXCEPT ![tasks[t].p] =
                     Fit(@, tasks[t].dummy, DummyFeatureCount)]
    /\ tasks' = [tasks EXCEPT ![t].pc = "fit_models"]
    /\ running' = Holder(t, "fit_models")
    /\ UNCHANGED <<is_trained, models, feature_importance, model_versions, rng>>
    /\ UNCHANGED jobVars
    /\ UNCHANGED calcVars

\* _load_pretrained_models: the two models are fitted on the scaled dummy data
FitModels(t) ==
    /\ Scheduled(t)
    /\ tasks[t].pc = "fit_models"
    /\ models' = [models EXCEPT ![tasks[t].p] =
                    [performance_model |->
                        Fit(@.performance_model, tasks[t].dummy, DummyFeatureCount),
                     profit_model |->
                        Fit(@.profit_model, tasks[t].dummy, DummyFeatureCount)]]
    /\ tasks' = [tasks EXCEPT ![t].pc = "importance"]
    /\ running' = Holder(t, "importance")
    /\ UNCHANGED <<is_trained, scalers, feature_importance, model_versions, rng>>
    /\ UNCHANGED jobVars
    /\ UNCHANGED calcVars

\* _load_pretrained_models: feature importances of the performance model and
\* the version tag
SetImportance(t) ==
    /\ Scheduled(t)
    /\ tasks[t].pc = "importance"
    /\ feature_importance' = [feature_importance EXCEPT ![tasks[t].p] =
                                models[tasks[t].p].performance_model.fitted_on]
    /\ model_versions' = [model_versions EXCEPT ![tasks[t].p] = PretrainedVersion]
    /\ tasks' = [tasks EXCEPT ![t].pc = "set_trained"]
    /\ running' = Holder(t, "set_trained")
    /\ UNCHANGED <<is_trained, models, scalers, rng>>
    /\ UNCHANGED jobVars
    /\ UNCHANGED calcVars

\* _load_pretrained_models: self.is_trained = True; then back in
\* predict_leader_performance, or retrain_models returns
SetTrained(t) ==
    /\ Scheduled(t)
    /\ tasks[t].pc = "set_trained"
    /\ is_trained' = [is_trained EXCEPT ![tasks[t].p] = TRUE]
    /\ LET pc == IF tasks[t].op = "predict" THEN "make_predictions" ELSE "done"
       IN  /\ tasks' = [tasks EXCEPT ![t].pc = pc]
           /\ running' = Holder(t, pc)
    /\ UNCHANGED <<models, scalers, feature_importance, model_versions, rng>>
    /\ UNCHANGED jobVars
    /\ UNCHANGED calcVars

\* predict_leader_performance: _make_predictions, the confidence, the
\* threshold and the result
Predict(t) ==
    /\ Scheduled(t)
    /\ tasks[t].pc = "make_predictions"
    /\ LET p == tasks[t].p IN
          tasks' = [tasks EXCEPT ![t].pc = "done",
                      ![t].result =
                          PredictionResult(scalers[p], models[p],
                              feature_importance[p], model_versions[p],
                              ExtractFeatures(TradesOf(tasks[t].hist)),
                              tasks[t].horizon, tasks[t].threshold)]
    /\ running' = Holder(t, "done")
    /\ UNCHANGED <<is_trained, models, scalers, feature_importance,
                   model_versions, rng>>
    /\ UNCHANGED jobVars
    /\ UNCHANGED calcVars

NextML ==
    \/ \E t \in Tasks, p \in Predictors, h \in Horizons, c \in Thresholds :
          StartPredict(t, p, h, c)
    \/ \E t \in Tasks, h \in Histories : RejectedByGate(t, h)
    \/ \E t \in Tasks, h \in Histories : PassGate(t, h)
    \/ \E t \in Tasks, p \in Predictors : StartRetrain(t, p)
    \/ \E t \in Tasks : TrainFallsBack(t)
    \/ \E t \in Tasks : LoadModels(t)
    \/ \E t \in Tasks : LoadScaler(t)
    \/ \E t \in Tasks : DrawDummy(t)
    \/ \E t \in Tasks : FitScaler(t)
    \/ \E t \in Tasks : FitModels(t)
    \/ \E t \in Tasks : SetImportance(t)
    \/ \E t \in Tasks : SetTrained(t)
    \/ \E t \in Tasks : Predict(t)

(***************************************************************************)
(* Part 3, the calculators: the pure functions of AnalyticsEngine and      *)
(* MLPredictor.  A call is one step: the variable call holds the name of   *)
(* the function called, its arguments and the value it returned, until     *)
(* the caller takes the value and the next call can be made.               *)
(* Percentages are integers; scores the code keeps as multiples of 0.1     *)
(* are counted in tenths.  The float sums of such multiples differ from    *)
(* the decimal by at most one unit in the last place (0.3 + 0.4 + 0.1 is   *)
(* 0.7999999999999999), and for no combination of the components does the *)
(* difference cross a threshold of the risk level.                         *)
(***************************************************************************)
NoCall == [fn |-> "none", args |-> [none |-> 0], out |-> [none |-> 0]]

Abs(x) == IF x < 0 THEN 0 - x ELSE x

\* the arguments the calls are made with: values on both sides of every
\* threshold of _assess_risk_level
Volatilities == {0, 15, 16, 30, 31, 50, 51}
Drawdowns == {0, 5, 6, 10, 11, 20, 21, 30, 31}
Vars95 == {-11, -10, -6, -5, -3, -2, 0, 2, 3, 11}

VolatilityComponentNegated(volatility) ==
    IF volatility > 50 THEN 0 - 3
    ELSE IF volatility > 30 THEN 0 - 2
    ELSE IF volatility > 15 THEN 0 - 1
    ELSE 0

\* _assess_risk_level: the volatility component, in tenths
VolatilityComponent(volatility) ==
    IF volatility > 50 THEN 3
    ELSE IF volatility > 30 THEN 2
    ELSE IF volatility > 15 THEN 1
    ELSE 0

DrawdownComponentInclusive(max_drawdown) ==
    IF max_drawdown >= 30 THEN 4
    ELSE IF max_drawdown >= 20 THEN 3
    ELSE IF max_drawdown >= 10 THEN 2
    ELSE IF max_drawdown >= 5 THEN 1
    ELSE 0

\* _assess_risk_level: the drawdown component, in tenths
DrawdownComponent(max_drawdown) ==
    IF max_drawdown > 30 THEN 4
    ELSE IF max_drawdown > 20 THEN 3
    ELSE IF max_drawdown > 10 THEN 2
    ELSE IF max_drawdown > 5 THEN 1
    ELSE 0

VarComponentSigned(var_95) ==
    IF var_95 > 10 THEN 3
    ELSE IF var_95 > 5 THEN 2
    ELSE IF var_95 > 2 THEN 1
    ELSE 0

\* _assess_risk_level: the value-at-risk component, in tenths
VarComponent(var_95) ==
    IF Abs(var_95) > 10 THEN 3
    ELSE IF Abs(var_95) > 5 THEN 2
    ELSE IF Abs(var_95) > 2 THEN 1
    ELSE 0

\* _assess_risk_level: the level of a score in tenths
RiskLevelOf(risk_score) ==
    IF risk_score >= 7 THEN "extreme"
    ELSE IF risk_score >= 5 THEN "high"
    ELSE IF risk_score >= 3 THEN "medium"
    ELSE "low"

\* _assess_risk_level: the level is taken from the sum, the score returned
\* is min(sum, 1.0)
AssessRiskLevel(volatility, max_drawdown, var_95) ==
    LET risk_score == VolatilityComponent(volatility)
                      + DrawdownComponent(max_drawdown)
                      + VarComponent(var_95)
    IN  [risk_level |-> RiskLevelOf(risk_score),
         risk_score |-> Min(risk_score, 10)]

\* the arguments of _calculate_prediction_confidence: trade counts and day
\* counts on both sides of its thresholds, probabilities in tenths, and a
\* volatility that is NaN, at most 10, or above 10
TradeCounts == {0, 1, 50, 51, 100, 101}
DayCounts == {0, 1, 30, 31, 60, 61}
Probabilities == {0, 2, 3, 5, 7, 8, 10}
VolatilityFeatures ==
    {[defined |-> FALSE, gt10 |-> FALSE], [defined |-> TRUE, gt10 |-> FALSE],
     [defined |-> TRUE, gt10 |-> TRUE]}

InitCalc == call = NoCall

\* a call of AnalyticsEngine._assess_risk_level
AssessRisk(volatility, max_drawdown, var_95) ==
    /\ call = NoCall
    /\ call' = [fn |-> "_assess_risk_level",
                args |-> [volatility |-> volatility,
                          max_drawdown |-> max_drawdown, var_95 |-> var_95],
                out |-> AssessRiskLevel(volatility, max_drawdown, var_95)]
    /\ UNCHANGED jobVars
    /\ UNCHANGED mlVars

\* a call of MLPredictor._calculate_prediction_confidence
CalculateConfidence(total_trades, trading_days, volatility, profit_probability) ==
    LET features == [total_trades |-> total_trades,
                     trading_days |-> trading_days, volatility |-> volatility]
        predictions == [profit_probability |-> profit_probability]
    IN  /\ call = NoCall
        /\ call' = [fn |-> "_calculate_prediction_confidence",
                    args |-> [features |-> features, predictions |-> predictions],
                    out |-> [confidence |-> Confidence(features, predictions)]]
        /\ UNCHANGED jobVars
        /\ UNCHANGED mlVars

(***************************************************************************)
(* The Metrics Calculator.  A float the code computes as a quotient is     *)
(* kept as the fraction [num, den] in lowest terms with den > 0, so that   *)
(* no rounding enters the comparison of two values.                        *)
(***************************************************************************)
\* the longest trade list drawn (the fixed sequence below apart)
MaxLen == 2

RECURSIVE Gcd(_, _)
Gcd(a, b) == IF b = 0 THEN a ELSE Gcd(b, a % b)

\* the fraction n / d for d > 0, in lowest terms
Rat(n, d) == LET g == Gcd(Abs(n), d) IN [num |-> n \div g, den |-> d \div g]
Zero == Rat(0, 1)
RatEq(a, b) == a.num * b.den = b.num * a.den
RatMul(a, b) == Rat(a.num * b.num, a.den * b.den)
\* a / b for b > 0
RatDiv(a, b) == Rat(a.num * b.den, a.den * b.num)

MaxOf(S) == CHOOSE x \in S : \A y \in S : y <= x
MinOf(S) == CHOOSE x \in S : \A y \in S : x <= y

\* the rows of the trade ledger as far as the calculators read them
Sides == {"buy", "sell"}
Sizes == {1, 2}
Prices == {100, 110}
Times == {1, 2}
TradeRows == [side : Sides, size : Sizes, price : Prices, executed_at : Times]
TradeLists == UNION {[1..n -> TradeRows] : n \in 0..MaxLen}

\* ten trades, a buy at 100 and a sell at 110 in turn, of size 1
AlternatingTrades ==
    [i \in 1..10 |->
        [side |-> IF i % 2 = 1 THEN "buy" ELSE "sell",
         size |-> 1,
         price |-> IF i % 2 = 1 THEN 100 ELSE 110,
         executed_at |-> i]]

TradeInputs == TradeLists \cup {AlternatingTrades}
\* the days argument of the calculators
WindowDays == {7, 30}

TradePnlUnsigned(row) == row.size * row.price

\* df['pnl'] of _calculate_performance_metrics, for one row
TradePnl(row) ==
    IF row.side = "sell" THEN row.size * row.price
    ELSE 0 - row.size * row.price

PnlColumn(trades) == [i \in DOMAIN trades |-> TradePnl(trades[i])]

SortByTimeUnsorted(trades) == trades

\* df.sort_values('executed_at'); rows of equal time keep their order
SortByTime(trades) ==
    LET Before(j, i) ==
            \/ trades[j].executed_at < trades[i].executed_at
            \/ trades[j].executed_at = trades[i].executed_at /\ j < i
    IN  [k \in DOMAIN trades |->
            trades[CHOOSE i \in DOMAIN trades :
                      Cardinality({j \in DOMAIN trades : Before(j, i)}) = k - 1]]

\* _calculate_max_drawdown_pct
CalculateMaxDrawdownPct(trades) ==
    IF trades = <<>> THEN Zero
    ELSE LET pnl == PnlColumn(SortByTime(trades))
             cumulative_pnl == [k \in DOMAIN pnl |-> SumOver(pnl, 1..k)]
             running_max ==
                 [k \in DOMAIN pnl |-> MaxOf({cumulative_pnl[i] : i \in 1..k})]
             drawdown == [k \in DOMAIN pnl |-> cumulative_pnl[k] - running_max[k]]
             max_drawdown == Abs(MinOf({drawdown[k] : k \in DOMAIN pnl}))
         IN  Rat(max_drawdown * 100, 10000)

\* _empty_performance_metrics
EmptyPerformanceMetrics ==
    [total_return_pct |-> Zero, annualized_return_pct |-> Zero,
     total_trades |-> 0, profitable_trades |-> 0, win_rate_pct |-> Zero,
     avg_win_pct |-> Zero, avg_loss_pct |-> Zero, largest_win_pct |-> Zero,
     largest_loss_pct |-> Zero, profit_factor |-> Zero,
     recovery_factor |-> Zero, calmar_ratio |-> Zero]

ProfitFactorUnguarded(total_wins, total_losses) ==
    IF total_losses > 0 THEN Rat(total_wins, total_losses)
    ELSE Rat(total_wins, 1)

\* total_wins / total_losses if total_losses > 0 else 0
ProfitFactor(total_wins, total_losses) ==
    IF total_losses > 0 THEN Rat(total_wins, total_losses) ELSE Zero

\* (profitable_trades / total_trades * 100) if total_trades > 0 else 0
WinRate(profitable_trades, total_trades) ==
    IF total_trades > 0 THEN Rat(profitable_trades * 100, total_trades)
    ELSE Zero

\* _calculate_performance_metrics: the record returned, and beside it the
\* locals pnl (the column df['pnl']) and total_pnl
CalculatePerformanceMetrics(trades, days) ==
    IF trades = <<>>
    THEN [metrics |-> EmptyPerformanceMetrics, pnl |-> <<>>, total_pnl |-> 0]
    ELSE LET pnl == PnlColumn(trades)
             total_pnl == SumOver(pnl, DOMAIN pnl)
             total_trades == Len(trades)
             winning_trades == {i \in DOMAIN pnl : pnl[i] > 0}
             losing_trades == {i \in DOMAIN pnl : pnl[i] < 0}
             profitable_trades == Cardinality(winning_trades)
             avg_win ==
                 IF winning_trades # {}
                 THEN Rat(SumOver(pnl, winning_trades), Cardinality(winning_trades))
                 ELSE Zero
             avg_loss ==
                 IF losing_trades # {}
                 THEN Rat(Abs(SumOver(pnl, losing_trades)), Cardinality(losing_trades))
                 ELSE Zero
             largest_win ==
                 IF winning_trades # {}
                 THEN MaxOf({pnl[i] : i \in winning_trades}) ELSE 0
             starting_capital == 10000
             largest_loss ==
                 IF losing_trades # {}
                 THEN Abs(MinOf({pnl[i] : i \in losing_trades})) ELSE 0
             total_wins ==
                 IF winning_trades # {} THEN SumOver(pnl, winning_trades) ELSE 0
             total_losses ==
                 IF losing_trades # {} THEN Abs(SumOver(pnl, losing_trades)) ELSE 0
             total_return_pct == Rat(total_pnl * 100, starting_capital)
             annualized_return ==
                 IF days > 0 THEN RatMul(total_return_pct, Rat(365, days))
                 ELSE Zero
             max_drawdown_pct == CalculateMaxDrawdownPct(trades)
         IN  [metrics |->
                 [total_return_pct |-> total_return_pct,
                  annualized_return_pct |-> annualized_return,
                  total_trades |-> total_trades,
                  profitable_trades |-> profitable_trades,
                  win_rate_pct |-> WinRate(profitable_trades, total_trades),
                  avg_win_pct |-> RatMul(avg_win, Rat(100, starting_capital)),
                  avg_loss_pct |-> RatMul(avg_loss, Rat(100, starting_capital)),
                  largest_win_pct |-> Rat(largest_win * 100, starting_capital),
                  largest_loss_pct |-> Rat(largest_loss * 100, starting_capital),
                  profit_factor |-> ProfitFactor(total_wins, total_losses),
                  recovery_factor |->
                      IF max_drawdown_pct.num > 0
                      THEN RatDiv(total_return_pct, max_drawdown_pct) ELSE Zero,
                  calmar_ratio |->
                      IF max_drawdown_pct.num > 0
                      THEN RatDiv(annualized_return, max_drawdown_pct) ELSE Zero],
              pnl |-> pnl,
              total_pnl |-> total_pnl]

EmptyRiskMetricsMedium ==
    [max_drawdown_pct |-> Zero, current_drawdown_pct |-> Zero,
     volatility_pct |-> Zero, downside_deviation_pct |-> Zero,
     value_at_risk_95_pct |-> Zero, conditional_var_95_pct |-> Zero,
     sharpe_ratio |-> Zero, sortino_ratio |-> Zero,
     risk_level |-> "medium", risk_score |-> 3]

\* _empty_risk_metrics; the score in tenths
EmptyRiskMetrics ==
    [max_drawdown_pct |-> Zero, current_drawdown_pct |-> Zero,
     volatility_pct |-> Zero, downside_deviation_pct |-> Zero,
     value_at_risk_95_pct |-> Zero, conditional_var_95_pct |-> Zero,
     sharpe_ratio |-> Zero, sortino_ratio |-> Zero,
     risk_level |-> "low", risk_score |-> 0]

\* _calculate_risk_metrics on the empty trade list: pd.DataFrame([]).empty
\* holds and the function returns before it computes anything
RiskMetricsOfEmpty == EmptyRiskMetrics

\* _calculate_market_metrics: the same placeholder for every argument
CalculateMarketMetrics(trades, days) ==
    [correlation_to_btc |-> Zero, correlation_to_eth |-> Zero,
     beta_to_market |-> Rat(1, 1), alpha |-> Zero,
     tracking_error_pct |-> Zero, information_ratio |-> Zero]

\* the Python dict {}
EmptyDict == <<>>
\* the Python value None
NoneValue == [none |-> TRUE]
\* _analyze_trading_frequency on the empty trade list: return {}
TradingFrequencyOfEmpty == EmptyDict

\* the arguments of _generate_optimized_settings: risk_tolerance in tenths,
\* the drawdown limit and the target return in percent
RiskTolerances == 0..10
MaxDrawdownPcts == {1, 10, 25, 50}
TargetReturnPcts == {1, 15, 20, 100}

CopyPercentageUncapped(risk_tolerance) == risk_tolerance * 2

\* min(risk_tolerance * 20, 15), risk_tolerance in tenths
CopyPercentage(risk_tolerance) == Min(risk_tolerance * 2, 15)

\* _generate_optimized_settings; int() of a non-negative float is its floor
GenerateOptimizedSettings(risk_tolerance, max_drawdown_pct, target_return_pct) ==
    [copy_percentage |-> CopyPercentage(risk_tolerance),
     max_position_size |-> Rat(1000 * (10 + risk_tolerance), 10),
     stop_loss_percentage |-> Rat(max_drawdown_pct * 5, 10),
     take_profit_percentage |-> Rat(target_return_pct * 3, 10),
     risk_settings |->
         [max_trades_per_day |-> (5 * (10 + risk_tolerance)) \div 10,
          max_consecutive_losses |-> (3 * (20 - risk_tolerance)) \div 10,
          correlation_limit |-> Rat(80 - risk_tolerance * 2, 100)]]

\* a call of _calculate_performance_metrics
PerformanceMetricsCall(trades, days) ==
    /\ call = NoCall
    /\ call' = [fn |-> "_calculate_performance_metrics",
                args |-> [trades |-> trades, days |-> days],
                out |-> CalculatePerformanceMetrics(trades, days)]
    /\ UNCHANGED jobVars
    /\ UNCHANGED mlVars

\* a call of _calculate_max_drawdown_pct
MaxDrawdownCall(trades) ==
    /\ call = NoCall
    /\ call' = [fn |-> "_calculate_max_drawdown_pct",
                args |-> [trades |-> trades],
                out |-> [max_drawdown_pct |-> CalculateMaxDrawdownPct(trades)]]
    /\ UNCHANGED jobVars
    /\ UNCHANGED mlVars

\* a call of _calculate_risk_metrics on the empty trade list
RiskMetricsOnEmpty ==
    /\ call = NoCall
    /\ call' = [fn |-> "_calculate_risk_metrics",
                args |-> [trades |-> <<>>],
                out |-> RiskMetricsOfEmpty]
    /\ UNCHANGED jobVars
    /\ UNCHANGED mlVars

\* a call of _calculate_market_metrics
MarketMetricsCall(trades, days) ==
    /\ call = NoCall
    /\ call' = [fn |-> "_calculate_market_metrics",
                args |-> [trades |-> trades, days |-> days],
                out |-> CalculateMarketMetrics(trades, days)]
    /\ UNCHANGED jobVars
    /\ UNCHANGED mlVars

\* a call of _analyze_trading_frequency on the empty trade list
TradingFrequencyOnEmpty ==
    /\ call = NoCall
    /\ call' = [fn |-> "_analyze_trading_frequency",
                args |-> [trades |-> <<>>],
                out |-> TradingFrequencyOfEmpty]
    /\ UNCHANGED jobVars
    /\ UNCHANGED mlVars

\* a call of _generate_optimized_settings
OptimizedSettingsCall(risk_tolerance, max_drawdown_pct, target_return_pct) ==
    /\ call = NoCall
    /\ call' = [fn |-> "_generate_optimized_settings",
                args |-> [risk_tolerance |-> risk_tolerance,
                          max_drawdown_pct |-> max_drawdown_pct,
                          target_return_pct |-> target_return_pct],
                out |-> GenerateOptimizedSettings(risk_tolerance, max_drawdown_pct,
                                                  target_return_pct)]
    /\ UNCHANGED jobVars
    /\ UNCHANGED mlVars


(***************************************************************************)
(* The follower optimizer's allocation and the facade operations.          *)
(***************************************************************************)
\* the longest list of leader addresses drawn
MaxLeaders == 3

RatAdd(a, b) == Rat(a.num * b.den + b.num * a.den, a.den * b.den)

RECURSIVE RatSumOver(_, _)
RatSumOver(f, S) ==
    IF S = {} THEN Zero
    ELSE LET x == CHOOSE y \in S : TRUE IN RatAdd(f[x], RatSumOver(f, S \ {x}))

Range(s) == {s[i] : i \in DOMAIN s}

\* lists of leader addresses; a list may name an address more than once
LeaderLists == UNION {[1..n -> Leaders] : n \in 0..MaxLeaders}

\* _calculate_portfolio_allocation: {leader: 100 / len(leaders) for leader in
\* leaders}, a dict, so an address named twice has one entry
CalculatePortfolioAllocation(leaders, risk_tolerance) ==
    IF leaders = <<>> THEN EmptyDict
    ELSE [leader \in Range(leaders) |-> Rat(100, Len(leaders))]

\* a call of _calculate_portfolio_allocation
PortfolioAllocationCall(leaders, risk_tolerance) ==
    /\ call = NoCall
    /\ call' = [fn |-> "_calculate_portfolio_allocation",
                args |-> [leaders |-> leaders, risk_tolerance |-> risk_tolerance],
                out |-> CalculatePortfolioAllocation(leaders, risk_tolerance)]
    /\ UNCHANGED jobVars
    /\ UNCHANGED mlVars


\* the square root of the square x, which is at most bound
Root(x, bound) == CHOOSE s \in 0..bound : s * s = x

\* np.std of the values f[i], i in S (the population standard deviation);
\* the histories below are chosen so that it is rational
PopStd(f, S) ==
    LET n == Cardinality(S)
        s1 == SumOver(f, S)
        s2 == SumOver([i \in S |-> f[i] * f[i]], S)
        largest == MaxOf({Abs(f[i]) : i \in S})
    IN  Rat(Root(n * s2 - s1 * s1, n * largest), n)

\* the values f[i], i in DOMAIN f, in ascending order
SortedValues(f) ==
    LET Before(j, i) == f[j] < f[i] \/ (f[j] = f[i] /\ j < i)
    IN  [k \in DOMAIN f |->
            f[CHOOSE i \in DOMAIN f :
                 Cardinality({j \in DOMAIN f : Before(j, i)}) = k - 1]]

\* np.percentile(returns, 5): linear interpolation between the two order
\* statistics around position (n - 1) * 0.05
Percentile5(returns) ==
    LET x == SortedValues(returns)
        n == Len(returns)
        lo == ((n - 1) * 5) \div 100
        rest == ((n - 1) * 5) % 100
    IN  IF rest = 0 THEN Rat(x[lo + 1], 1)
        ELSE Rat(100 * x[lo + 1] + rest * (x[lo + 2] - x[lo + 1]), 100)

\* the least integer not below the fraction r >= 0: r > t for an integer t
\* exactly when this integer is > t
CeilOf(r) == (r.num + r.den - 1) \div r.den

\* the least integer not below c * sqrt(252) for the fraction c >= 0
RECURSIVE CeilAnnualFrom(_, _)
CeilAnnualFrom(c, k) ==
    IF k * k * c.den * c.den >= c.num * c.num * 252 THEN k
    ELSE CeilAnnualFrom(c, k + 1)

\* _calculate_risk_metrics.  The fields that carry the factor sqrt(252),
\* volatility_pct, are kept as its coefficient; _assess_risk_level compares
\* its arguments with integers only, so it is given them rounded up.
CalculateRiskMetrics(trades) ==
    IF trades = <<>> THEN EmptyRiskMetrics
    ELSE LET returns == PnlColumn(trades)
             n == Len(returns)
             volatility_daily == PopStd(returns, DOMAIN returns)
             volatility_annualized == RatMul(volatility_daily, Rat(100, 10000))
             negative_returns == {i \in DOMAIN returns : returns[i] < 0}
             downside_deviation ==
                 IF negative_returns # {} THEN PopStd(returns, negative_returns)
                 ELSE Zero
             percentile == Percentile5(returns)
             var_95 == RatMul(percentile, Rat(100, 10000))
             tail == {i \in DOMAIN returns :
                         returns[i] * percentile.den <= percentile.num}
             cvar_95 == RatMul(Rat(SumOver(returns, tail), Cardinality(tail)),
                               Rat(100, 10000))
             avg_return == Rat(SumOver(returns, DOMAIN returns), n)
             max_drawdown_pct == CalculateMaxDrawdownPct(trades)
             assessed ==
                 AssessRiskLevel(
                     CeilAnnualFrom(volatility_annualized, 0),
                     CeilOf(max_drawdown_pct),
                     IF var_95.num < 0
                     THEN 0 - CeilOf(Rat(0 - var_95.num, var_95.den))
                     ELSE CeilOf(var_95))
         IN  [max_drawdown_pct |-> max_drawdown_pct,
              current_drawdown_pct |-> Zero,
              volatility_pct |-> volatility_annualized,
              downside_deviation_pct |-> RatMul(downside_deviation, Rat(100, 10000)),
              value_at_risk_95_pct |-> var_95,
              conditional_var_95_pct |-> cvar_95,
              sharpe_ratio |->
                  IF volatility_daily.num > 0
                  THEN RatDiv(avg_return, volatility_daily) ELSE Zero,
              sortino_ratio |->
                  IF downside_deviation.num > 0
                  THEN RatDiv(avg_return, downside_deviation) ELSE Zero,
              risk_level |-> assessed.risk_level,
              risk_score |-> assessed.risk_score]


\* what get_leader_trades and get_follower_trades return for an address: no
\* row, one sell, or a buy and a later, larger sell.  The service only reads
\* the trade table, so one call sees one ledger.
NoTrades == <<>>
OneSell == <<[side |-> "sell", size |-> 1, price |-> 100, executed_at |-> 1]>>
BuyThenSell ==
    <<[side |-> "buy", size |-> 1, price |-> 100, executed_at |-> 1],
      [side |-> "sell", size |-> 2, price |-> 110, executed_at |-> 2]>>
LedgerHistories == {NoTrades, OneSell, BuyThenSell}
Ledgers == [Leaders -> LedgerHistories]

\* the weights of a request, as whole numbers; <<>> stands for both None
\* and [], which `not weights` does not tell apart.  The endpoint rejects a
\* non-empty weight list whose length differs from the address list's.
WeightValues == {0, 1, 3}
WeightLists(addresses) == {<<>>} \cup [DOMAIN addresses -> WeightValues]

\* the outcome of a facade operation: it raises, or it returns a value
Raise(exception) == [raised |-> exception]
ReturnValue(value) == [raised |-> "no", value |-> value]

\* weights = [1/len(addresses)] * len(addresses), for a non-empty list
DefaultWeights(addresses) ==
    [i \in DOMAIN addresses |-> Rat(1, Len(addresses))]

NormalizeWeightsSkipped(weights) == weights

\* total_weight = sum(weights); [w/total_weight for w in weights], for a
\* total > 0
NormalizeWeights(weights) ==
    LET total_weight == RatSumOver(weights, DOMAIN weights)
    IN  [i \in DOMAIN weights |-> RatDiv(weights[i], total_weight)]

\* dict(zip(keys, values)): a key that occurs again takes the later value
DictZip(keys, values) ==
    [k \in Range(keys) |-> values[MaxOf({i \in DOMAIN keys : keys[i] = k})]]

\* _calculate_diversification_benefit
CalculateDiversificationBenefit(addresses, weights) ==
    IF Len(addresses) <= 1 THEN Zero
    ELSE Rat(Min(Len(addresses) * 15, 80), 100)

\* analyze_portfolio.  1/len(addresses) on the empty list, and w/total_weight
\* on a total of zero, raise ZeroDivisionError; nothing in the method
\* catches it.  Beside the value returned stands the local weights after
\* normalization.  expected_volatility_pct is the coefficient of sqrt(252), and
\* sharpe_ratio that of 1/sqrt(252).
AnalyzePortfolio(addresses, weights, rebalance_frequency, ledger) ==
    IF weights = <<>> /\ addresses = <<>> THEN Raise("ZeroDivisionError")
    ELSE LET supplied ==
                 IF weights = <<>> THEN DefaultWeights(addresses)
                 ELSE [i \in DOMAIN weights |-> Rat(weights[i], 1)]
         IN  IF RatSumOver(supplied, DOMAIN supplied).num = 0
             THEN Raise("ZeroDivisionError")
             ELSE LET normalized == NormalizeWeights(supplied)
                      traded == {i \in DOMAIN addresses : ledger[addresses[i]] # <<>>}
                      performance(i) ==
                          CalculatePerformanceMetrics(ledger[addresses[i]], 30).metrics
                      risk(i) == CalculateRiskMetrics(ledger[addresses[i]])
                      expected_return_pct ==
                          RatSumOver([i \in traded |->
                                         RatMul(performance(i).total_return_pct,
                                                normalized[i])], traded)
                      expected_volatility_pct ==
                          RatSumOver([i \in traded |->
                                         RatMul(risk(i).volatility_pct,
                                                normalized[i])], traded)
                      max_drawdown_pct ==
                          RatSumOver([i \in traded |->
                                         RatMul(risk(i).max_drawdown_pct,
                                                normalized[i])], traded)
                  IN  [raised |-> "no", weights |-> normalized, value |->
                        [portfolio_metrics |->
                             [expected_return_pct |-> expected_return_pct,
                              expected_volatility_pct |-> expected_volatility_pct,
                              sharpe_ratio |->
                                  IF expected_volatility_pct.num > 0
                                  THEN RatDiv(expected_return_pct,
                                              expected_volatility_pct)
                                  ELSE Zero,
                              max_drawdown_pct |-> max_drawdown_pct],
                         allocation |-> DictZip(addresses, normalized),
                         rebalance_frequency |-> rebalance_frequency,
                         diversification_benefit |->
                             CalculateDiversificationBenefit(addresses, normalized)]]

\* a call of analyze_portfolio
AnalyzePortfolioCall(addresses, weights, ledger) ==
    /\ call = NoCall
    /\ call' = [fn |-> "analyze_portfolio",
                args |-> [addresses |-> addresses, weights |-> weights,
                          ledger |-> ledger],
                out |-> AnalyzePortfolio(addresses, weights, "weekly", ledger)]
    /\ UNCHANGED jobVars
    /\ UNCHANGED mlVars


\* one entry of compare_leaders
ComparisonEntry(trades, days) ==
    LET performance == CalculatePerformanceMetrics(trades, days).metrics
        risk == CalculateRiskMetrics(trades)
    IN  [return |-> performance.total_return_pct,
         sharpe |-> risk.sharpe_ratio,
         max_drawdown |-> risk.max_drawdown_pct,
         win_rate |-> performance.win_rate_pct,
         total_trades |-> performance.total_trades,
         volatility |-> risk.volatility_pct]

CompareLeadersAll(addresses, days, ledger) ==
    ReturnValue([address \in Range(addresses) |->
                    ComparisonEntry(ledger[address], days)])

\* compare_leaders: an entry is written only under `if trades:`
CompareLeaders(addresses, days, ledger) ==
    ReturnValue([address \in {a \in Range(addresses) : ledger[a] # <<>>} |->
                    ComparisonEntry(ledger[address], days)])

\* calculate_risk_metrics, the facade operation
CalculateLeaderRiskMetrics(leader_address, days, ledger) ==
    IF ledger[leader_address] = <<>> THEN ReturnValue(NoneValue)
    ELSE ReturnValue(CalculateRiskMetrics(ledger[leader_address]))

\* what predict_leader_performance hands to analyze_leader_performance
PredictionOutcomes == {"none", "prediction"}

\* analyze_leader_performance.  has_metrics: get_leader_performance_metrics
\* returned a non-empty row; step_raises: one of the awaited steps raised,
\* which the method's except turns into None.  The allocation, time series
\* and frequency fields are passed through from the database and not kept.
AnalyzeLeaderPerformance(leader_address, days, include_predictions, has_metrics, step_raises, predicted, ledger) ==
    LET trades == ledger[leader_address]
    IN  IF ~has_metrics THEN ReturnValue(NoneValue)
        ELSE IF trades = <<>> THEN ReturnValue(NoneValue)
        ELSE IF step_raises THEN ReturnValue(NoneValue)
        ELSE ReturnValue(
               [leader_address |-> leader_address,
                analysis_period_days |-> days,
                performance_metrics |->
                    CalculatePerformanceMetrics(trades, days).metrics,
                risk_metrics |-> CalculateRiskMetrics(trades),
                market_metrics |-> CalculateMarketMetrics(trades, days),
                predictions |->
                    IF include_predictions THEN predicted ELSE "none"])

\* _recommend_leaders_for_follower: three fixed addresses
RecommendLeadersForFollower(risk_tolerance, target_return_pct) ==
    <<"0x1234567890123456789012345678901234567890",
      "0x2345678901234567890123456789012345678901",
      "0x3456789012345678901234567890123456789012">>

\* _calculate_expected_improvement: fixed figures
CalculateExpectedImprovement(current_metrics, optimized_settings) ==
    [return_improvement_pct |-> Rat(25, 10),
     risk_reduction_pct |-> Rat(15, 1),
     sharpe_improvement |-> Rat(3, 10),
     drawdown_reduction_pct |-> Rat(20, 1)]

Followers == {1, 2}

\* optimize_follower_strategy; trades is what get_follower_trades returned
OptimizeFollowerStrategy(follower_id, risk_tolerance, max_drawdown_pct, target_return_pct, trades) ==
    LET current_metrics == CalculatePerformanceMetrics(trades, 90).metrics
        current_risk == CalculateRiskMetrics(trades)
        optimized_settings ==
            GenerateOptimizedSettings(risk_tolerance, max_drawdown_pct,
                                      target_return_pct)
        recommended_leaders ==
            RecommendLeadersForFollower(risk_tolerance, target_return_pct)
    IN  ReturnValue(
          [follower_id |-> follower_id,
           current_settings |->
               [performance |-> current_metrics, risk |-> current_risk],
           optimized_settings |-> optimized_settings,
           expected_improvement |->
               CalculateExpectedImprovement(current_metrics, optimized_settings),
           risk_assessment |-> current_risk,
           recommended_leaders |-> recommended_leaders,
           portfolio_allocation |->
               CalculatePortfolioAllocation(recommended_leaders, risk_tolerance),
           confidence_score |-> Rat(75, 100)])

\* a call of compare_leaders
CompareLeadersCall(addresses, days, ledger) ==
    /\ call = NoCall
    /\ call' = [fn |-> "compare_leaders",
                args |-> [addresses |-> addresses, days |-> days,
                          ledger |-> ledger],
                out |-> CompareLeaders(addresses, days, ledger)]
    /\ UNCHANGED jobVars
    /\ UNCHANGED mlVars

\* a call of calculate_risk_metrics
LeaderRiskMetricsCall(leader_address, days, ledger) ==
    /\ call = NoCall
    /\ call' = [fn |-> "calculate_risk_metrics",
                args |-> [leader_address |-> leader_address, days |-> days,
                          ledger |-> ledger],
                out |-> CalculateLeaderRiskMetrics(leader_address, days, ledger)]
    /\ UNCHANGED jobVars
    /\ UNCHANGED mlVars

\* a call of analyze_leader_performance
AnalyzeLeaderPerformanceCall(leader_address, days, include_predictions, has_metrics, step_raises, predicted, ledger) ==
    /\ call = NoCall
    /\ call' = [fn |-> "analyze_leader_performance",
                args |-> [leader_address |-> leader_address, days |-> days,
                          include_predictions |-> include_predictions,
                          has_metrics |-> has_metrics,
                          step_raises |-> step_raises,
                          ledger |-> ledger],
                out |-> AnalyzeLeaderPerformance(leader_address, days,
                            include_predictions, has_metrics, step_raises,
                            predicted, ledger)]
    /\ UNCHANGED jobVars
    /\ UNCHANGED mlVars

\* a call of optimize_follower_strategy
OptimizeFollowerStrategyCall(follower_id, risk_tolerance, max_drawdown_pct, target_return_pct, trades) ==
    /\ call = NoCall
    /\ call' = [fn |-> "optimize_follower_strategy",
                args |-> [follower_id |-> follower_id,
                          risk_tolerance |-> risk_tolerance,
                          max_drawdown_pct |-> max_drawdown_pct,
                          target_return_pct |-> target_return_pct,
                          trades |-> trades],
                out |-> OptimizeFollowerStrategy(follower_id, risk_tolerance,
                            max_drawdown_pct, target_return_pct, trades)]
    /\ UNCHANGED jobVars
    /\ UNCHANGED mlVars


\* a call of MLPredictor._extract_features on the trade history h
ExtractFeaturesCall(h) ==
    /\ call = NoCall
    /\ call' = [fn |-> "_extract_features",
                args |-> [history |-> h],
                out |-> ExtractFeatures(TradesOf(h))]
    /\ UNCHANGED jobVars
    /\ UNCHANGED mlVars


(***************************************************************************)
(* AnalyticsEngine.health_check.  It suspends once, at the database's      *)
(* health check, and predict and retrain calls on the shared predictor     *)
(* run meanwhile; the rest runs without yielding.  call.pc is where the    *)
(* check stands.                                                           *)
(***************************************************************************)
\* health, as initialised
InitialHealth == [database |-> FALSE, ml_models |-> FALSE, cache |-> TRUE]

\* what db.health_check() does: its two status values, or an exception
DbOutcomes == {"healthy", "unhealthy", "raises"}

FreshPredictorTrainedShared(flags) == flags["api"]

\* ml_predictor = MLPredictor(): the flag of the instance constructed in the
\* call, whatever the flags of the other instances
FreshPredictorTrained(flags) == FALSE

\* MLPredictor.health_check: False when not trained, else whether the test
\* prediction is reasonable
PredictorHealthCheck(trained, reasonable) ==
    IF ~trained THEN FALSE ELSE reasonable

\* health_check up to the await of self.db.health_check()
HealthCheckBegin ==
    /\ running = 0
    /\ call = NoCall
    /\ call' = [fn |-> "health_check", args |-> [none |-> 0],
                out |-> InitialHealth, pc |-> "db"]
    /\ UNCHANGED jobVars
    /\ UNCHANGED mlVars

\* the database answered db (or raised): the rest of health_check.
\* constructed: the import and MLPredictor() succeeded
HealthCheckEnd(db, constructed, reasonable) ==
    /\ running = 0
    /\ call.fn = "health_check"
    /\ call.pc = "db"
    /\ call' = [call EXCEPT
                  !.pc = "done",
                  !.out =
                     IF db = "raises" THEN InitialHealth
                     ELSE [database |-> db = "healthy",
                           ml_models |->
                               IF constructed
                               THEN PredictorHealthCheck(
                                        FreshPredictorTrained(is_trained),
                                        reasonable)
                               ELSE FALSE,
                           cache |-> TRUE]]
    /\ UNCHANGED jobVars
    /\ UNCHANGED mlVars

\* the caller takes the health report
HealthCheckReturn ==
    /\ call.fn = "health_check"
    /\ call.pc = "done"
    /\ call' = NoCall
    /\ UNCHANGED jobVars
    /\ UNCHANGED mlVars

\* the calls on the predictors that run beside the health check
HealthTasks == {1}

NextHealth ==
    \/ \E t \in HealthTasks, p \in Predictors, h \in Horizons, c \in Thresholds :
          StartPredict(t, p, h, c)
    \/ \E t \in HealthTasks, h \in Histories : RejectedByGate(t, h)
    \/ \E t \in HealthTasks, h \in Histories : PassGate(t, h)
    \/ \E t \in HealthTasks, p \in Predictors : StartRetrain(t, p)
    \/ \E t \in HealthTasks : TrainFallsBack(t)
    \/ \E t \in HealthTasks : LoadModels(t)
    \/ \E t \in HealthTasks : LoadScaler(t)
    \/ \E t \in HealthTasks : DrawDummy(t)
    \/ \E t \in HealthTasks : FitScaler(t)
    \/ \E t \in HealthTasks : FitModels(t)
    \/ \E t \in HealthTasks : SetImportance(t)
    \/ \E t \in HealthTasks : SetTrained(t)
    \/ \E t \in HealthTasks : Predict(t)
    \/ HealthCheckBegin
    \/ \E db \in DbOutcomes, constructed \in BOOLEAN, reasonable \in BOOLEAN :
          HealthCheckEnd(db, constructed, reasonable)
    \/ HealthCheckReturn

\* the caller takes the value
Return ==
    /\ call # NoCall
    /\ call' = NoCall
    /\ UNCHANGED jobVars
    /\ UNCHANGED mlVars

NextCalc ==
    \/ \E v \in Volatilities, d \in Drawdowns, r \in Vars95 : AssessRisk(v, d, r)
    \/ \E n \in TradeCounts, d \in DayCounts, v \in VolatilityFeatures,
          p \in Probabilities : CalculateConfidence(n, d, v, p)
    \/ \E trades \in TradeInputs, days \in WindowDays :
          PerformanceMetricsCall(trades, days)
    \/ \E trades \in TradeInputs : MaxDrawdownCall(trades)
    \/ RiskMetricsOnEmpty
    \/ \E trades \in TradeInputs, days \in WindowDays :
          MarketMetricsCall(trades, days)
    \/ TradingFrequencyOnEmpty
    \/ \E rt \in RiskTolerances, dd \in MaxDrawdownPcts, tr \in TargetReturnPcts :
          OptimizedSettingsCall(rt, dd, tr)

    \/ \E leaders \in LeaderLists, rt \in RiskTolerances :
          PortfolioAllocationCall(leaders, rt)
    \/ \E addresses \in LeaderLists, ledger \in Ledgers :
          \E weights \in WeightLists(addresses) :
              AnalyzePortfolioCall(addresses, weights, ledger)
    \/ \E addresses \in LeaderLists, days \in WindowDays, ledger \in Ledgers :
          CompareLeadersCall(addresses, days, ledger)
    \/ \E leader \in Leaders, days \in WindowDays, ledger \in Ledgers :
          LeaderRiskMetricsCall(leader, days, ledger)
    \/ \E leader \in Leaders, days \in WindowDays, ledger \in Ledgers,
          include_predictions \in BOOLEAN, has_metrics \in BOOLEAN,
          step_raises \in BOOLEAN, predicted \in PredictionOutcomes :
          AnalyzeLeaderPerformanceCall(leader, days, include_predictions,
                                       has_metrics, step_raises, predicted, ledger)
    \/ \E follower_id \in Followers, rt \in RiskTolerances,
          dd \in MaxDrawdownPcts, tr \in TargetReturnPcts,
          trades \in LedgerHistories :
          OptimizeFollowerStrategyCall(follower_id, rt, dd, tr, trades)
    \/ \E h \in Histories : ExtractFeaturesCall(h)
    \/ Return

(***************************************************************************)
(* The specifications: the job tracker, the prediction pipeline and the    *)
(* calculators share no state, and each is run on its own.                 *)
(***************************************************************************)
Init == InitJobs /\ InitML /\ InitCalc

SpecJobs == Init /\ [][NextJobs]_vars

SpecML == Init /\ [][NextML]_vars

SpecCalc == Init /\ [][NextCalc]_vars

SpecHealth == Init /\ [][NextHealth]_vars

(***************************************************************************)
(* Properties of the Prediction Pipeline.                                  *)
(***************************************************************************)
\* every field of p's bundle comes from one training run
Complete(p) ==
    LET b == scalers[p].fitted_on IN
    /\ b # 0
    /\ models[p].performance_model.fitted_on = b
    /\ models[p].profit_model.fitted_on = b
    /\ feature_importance[p] = b
    /\ model_versions[p] = PretrainedVersion

\* p's bundle is as the constructor left it
Unloaded(p) ==
    /\ scalers[p] = NoEstimator
    /\ models[p].performance_model = NoEstimator
    /\ models[p].profit_model = NoEstimator
    /\ feature_importance[p] = 0
    /\ model_versions[p] = NoVersion

\* the estimators a model output was read from were fitted in one run
ReadFromOneRun(pr) ==
    pr.fitted_on[1] = pr.fitted_on[2] /\ pr.fitted_on[2] = pr.fitted_on[3]

\* C5: a prediction that runs while the models are being trained or
\* retrained reads a bundle that is entirely of one training run: whenever
\* the event loop can switch to another coroutine each predictor's bundle is
\* untouched or complete, a call about to query the models finds a complete
\* bundle, and every model output was read from estimators of one run.
C5_AtomicBundle ==
    /\ \A p \in Predictors :
          running = 0 => \/ is_trained[p] /\ Complete(p)
                         \/ ~is_trained[p] /\ Unloaded(p)
    /\ \A t \in Tasks :
          /\ tasks[t].pc = "make_predictions" => Complete(tasks[t].p)
          /\ tasks[t].result.predictions.source = "models"
                => /\ ReadFromOneRun(tasks[t].result.predictions)
                   /\ tasks[t].result.kind = "result"
                         => tasks[t].result.feature_importance
                               = tasks[t].result.predictions.fitted_on[1]

\* a prediction that was waiting for the ledger while retrain_models ran has
\* read the retrained bundle
C5_Witness ==
    \E t, u \in Tasks :
        /\ tasks[t].op = "predict" /\ tasks[u].op = "retrain"
        /\ tasks[t].p = tasks[u].p
        /\ tasks[t].pc = "done" /\ tasks[u].pc = "done"
        /\ tasks[t].result.predictions.source = "models"
        /\ ~tasks[t].trained_here
        /\ tasks[t].result.predictions.fitted_on[1] = tasks[u].dummy

\* C6: predict_leader_performance returns None whenever the leader has fewer
\* than 20 trades, for every horizon and every threshold, before any training.
C6_MinimumDataGate ==
    \A t \in Tasks :
        ( /\ tasks[t].op = "predict"
          /\ tasks[t].pc \notin {"idle", "get_trades"}
          /\ Len(TradesOf(tasks[t].hist)) < 20 )
        => /\ tasks[t].pc = "done"
           /\ tasks[t].result.kind = "none"
           /\ ~tasks[t].trained_here
           /\ tasks[t].dummy = 0

\* nineteen trades and the lowest threshold: None
C6_Witness ==
    \E t \in Tasks :
        /\ tasks[t].pc = "done"
        /\ Len(TradesOf(tasks[t].hist)) = 19
        /\ tasks[t].threshold = 5
        /\ tasks[t].result.kind = "none"

\* C7: a prediction that passes the gate on an untrained predictor trains
\* before it queries the models: when it reaches _make_predictions the
\* predictor is trained, its bundle is complete and is the one this call
\* fitted, and the call ends in None or a result, never in a failure to find
\* or use the models.
C7_TrainedBeforeQuery ==
    \A t \in Tasks :
        tasks[t].op = "predict" =>
            /\ tasks[t].pc = "make_predictions"
                  => /\ is_trained[tasks[t].p]
                     /\ Complete(tasks[t].p)
                     /\ tasks[t].trained_here
                           => scalers[tasks[t].p].fitted_on = tasks[t].dummy
            /\ (tasks[t].pc = "done" /\ tasks[t].trained_here)
                  => /\ tasks[t].dummy # 0
                     /\ tasks[t].result.kind \in {"none", "result"}
                     /\ tasks[t].result.predictions.error \notin {"missing", "unfitted"}

\* a call that trained the predictor itself and returned a model output
C7_Witness ==
    \E t \in Tasks :
        /\ tasks[t].op = "predict"
        /\ tasks[t].trained_here
        /\ tasks[t].pc = "done"
        /\ tasks[t].result.kind = "result"
        /\ tasks[t].result.predictions.source = "models"
        /\ tasks[t].result.predictions.fitted_on[1] = tasks[t].dummy

\* C8: when scaling or the model query fails, predict_leader_performance
\* returns None: every returned result carries values that came from the
\* models.
C8_NoFabricatedResult ==
    \A t \in Tasks :
        tasks[t].result.kind = "result"
            => tasks[t].result.predictions.source = "models"

\* C9: the bundle training publishes is fitted on exactly the columns
\* _make_predictions builds: the scaler and both models of a trained
\* predictor have as many features as feature_array, and no query fails on
\* shape.
C9_BundleShape ==
    /\ \A p \in Predictors :
          is_trained[p] =>
              /\ scalers[p].n_features = Len(FeatureNames)
              /\ models[p].performance_model.n_features = Len(FeatureNames)
              /\ models[p].profit_model.n_features = Len(FeatureNames)
    /\ \A t \in Tasks : tasks[t].result.predictions.error # "shape"

\* a call on a predictor an earlier call trained got its output from the
\* models
C9_Witness ==
    \E t \in Tasks :
        /\ tasks[t].op = "predict"
        /\ tasks[t].pc = "done"
        /\ ~tasks[t].trained_here
        /\ is_trained[tasks[t].p]
        /\ scalers[tasks[t].p].n_features = 18
        /\ tasks[t].result.predictions.source = "models"

\* the bundle of predictor p
Bundle(p) ==
    <<models[p], scalers[p], feature_importance[p], model_versions[p]>>

\* C10: the fallback fit is deterministic: two predictors trained through the
\* fallback hold the same bundle, and the same history and horizon give the
\* same model output and confidence on both.
C10_FallbackDeterministic ==
    /\ \A p, q \in Predictors :
          (running = 0 /\ is_trained[p] /\ is_trained[q]) => Bundle(p) = Bundle(q)
    /\ \A t, u \in Tasks :
          ( /\ tasks[t].result.predictions.source = "models"
            /\ tasks[u].result.predictions.source = "models"
            /\ tasks[t].hist = tasks[u].hist
            /\ tasks[t].horizon = tasks[u].horizon )
          => /\ tasks[t].result.predictions = tasks[u].result.predictions
             /\ tasks[t].result.confidence = tasks[u].result.confidence

(***************************************************************************)
(* Properties of the calculators.                                          *)
(***************************************************************************)
RiskCall == call.fn = "_assess_risk_level"
ConfidenceCall == call.fn = "_calculate_prediction_confidence"

\* C11: the risk score _assess_risk_level returns and the confidence
\* _calculate_prediction_confidence returns lie in [0, 1] (0 to 10 tenths)
\* for every input.
C11_ScoresInUnitInterval ==
    /\ RiskCall => call.out.risk_score >= 0 /\ call.out.risk_score <= 10
    /\ ConfidenceCall => call.out.confidence >= 0 /\ call.out.confidence <= 10

\* the largest arguments reach the upper end of the interval
C11_Witness ==
    /\ RiskCall
    /\ call.args.volatility = 51
    /\ call.args.max_drawdown = 31
    /\ call.args.var_95 = -11
    /\ call.out.risk_score = 10

\* C12: a result of predict_leader_performance that is not None carries a
\* confidence that is not below the confidence_threshold of the call.
C12_ThresholdRespected ==
    \A t \in Tasks :
        tasks[t].result.kind = "result"
            => tasks[t].result.confidence >= tasks[t].threshold

\* a prediction was made, its confidence was below the threshold, and the
\* call returned None
C12_Witness ==
    \E t \in Tasks :
        /\ tasks[t].pc = "done"
        /\ tasks[t].result.kind = "none"
        /\ tasks[t].result.predictions.source = "models"
        /\ tasks[t].result.confidence < tasks[t].threshold

\* the number of the thresholds a value lies strictly above
Exceeded(x, thresholds) == Cardinality({t \in thresholds : x > t})

\* C13: _assess_risk_level returns the sum of a volatility component (0.1
\* for each of the thresholds 15, 30, 50 exceeded), a drawdown component
\* (0.1 for each of 5, 10, 20, 30 exceeded) and a value-at-risk component
\* (0.1 for each of 2, 5, 10 that |var_95| exceeds); the level is extreme
\* from 0.7, high from 0.5, medium from 0.3, low below.
C13_RiskTable ==
    RiskCall =>
        LET score == Exceeded(call.args.volatility, {15, 30, 50})
                     + Exceeded(call.args.max_drawdown, {5, 10, 20, 30})
                     + Exceeded(Abs(call.args.var_95), {2, 5, 10})
        IN  /\ call.out.risk_score = score
            /\ call.out.risk_level = "extreme" <=> score >= 7
            /\ call.out.risk_level = "high" <=> score >= 5 /\ score < 7
            /\ call.out.risk_level = "medium" <=> score >= 3 /\ score < 5
            /\ call.out.risk_level = "low" <=> score < 3

\* a drawdown exactly on a threshold counts for the band below it
C13_Witness ==
    /\ RiskCall
    /\ call.args.volatility = 31
    /\ call.args.max_drawdown = 20
    /\ call.args.var_95 = -6
    /\ call.out.risk_score = 6
    /\ call.out.risk_level = "high"

LevelRank(level) ==
    CASE level = "low" -> 0
      [] level = "medium" -> 1
      [] level = "high" -> 2
      [] level = "extreme" -> 3

\* C14: _assess_risk_level is monotonic: arguments with no smaller
\* volatility, no smaller maximum drawdown and no smaller |var_95| give a
\* score and a level that are not lower.
C14_RiskMonotonic ==
    RiskCall =>
        \A v \in Volatilities, d \in Drawdowns, r \in Vars95 :
            (/\ v >= call.args.volatility
             /\ d >= call.args.max_drawdown
             /\ Abs(r) >= Abs(call.args.var_95))
            => LET above == AssessRiskLevel(v, d, r)
               IN  /\ above.risk_score >= call.out.risk_score
                   /\ LevelRank(above.risk_level) >= LevelRank(call.out.risk_level)

\* a call whose value-at-risk is a loss, and that a call with a smaller
\* |var_95| stays strictly below
C14_Witness ==
    /\ RiskCall
    /\ call.args.var_95 = -11
    /\ \E r \in Vars95 :
          /\ Abs(r) < 11
          /\ AssessRiskLevel(call.args.volatility, call.args.max_drawdown,
                             r).risk_score < call.out.risk_score

\* C15: the confidence is the clamp to [0, 1] of 0.5, plus 0.1 for more
\* than 50 trades, 0.1 for more than 100, 0.1 for more than 30 trading
\* days, 0.1 for more than 60, 0.1 for a profit probability above 0.7 or
\* below 0.3, minus 0.1 for a volatility above 10.
C15_ConfidenceFormula ==
    ConfidenceCall =>
        LET f == call.args.features
            p == call.args.predictions.profit_probability
            sum == 5 + Exceeded(f.total_trades, {50, 100})
                     + Exceeded(f.trading_days, {30, 60})
                     + Bit(p > 7 \/ p < 3)
                     - Bit(f.volatility.defined /\ f.volatility.gt10)
        IN  call.out.confidence = Min(Max(sum, 0), 10)

\* every increment and the penalty apply at once
C15_Witness ==
    /\ ConfidenceCall
    /\ call.args.features.total_trades = 101
    /\ call.args.features.trading_days = 61
    /\ call.args.predictions.profit_probability = 8
    /\ call.args.features.volatility.gt10
    /\ call.out.confidence = 9

PerformanceCall == call.fn = "_calculate_performance_metrics"
DrawdownCall == call.fn = "_calculate_max_drawdown_pct"
SettingsCall == call.fn = "_generate_optimized_settings"

\* C16: the profit factor of _calculate_performance_metrics is finite and
\* not negative; it is sum(positive PnL) / |sum(negative PnL)| when some
\* trade has a negative PnL, and 0 when none has.
C16_ProfitFactor ==
    PerformanceCall =>
        LET pnl == call.out.pnl
            wins == SumOver(pnl, {i \in DOMAIN pnl : pnl[i] > 0})
            losses == Abs(SumOver(pnl, {i \in DOMAIN pnl : pnl[i] < 0}))
            profit_factor == call.out.metrics.profit_factor
        IN  /\ profit_factor.den > 0
            /\ profit_factor.num >= 0
            /\ (\E i \in DOMAIN pnl : pnl[i] < 0)
                   => profit_factor.num * losses = wins * profit_factor.den
            /\ (\A i \in DOMAIN pnl : pnl[i] >= 0) => profit_factor.num = 0

\* a history of sells only: there are wins, no losses, and the factor is 0
C16_Witness ==
    /\ PerformanceCall
    /\ Len(call.args.trades) = 2
    /\ \A i \in DOMAIN call.args.trades : call.args.trades[i].side = "sell"
    /\ call.out.metrics.profitable_trades = 2
    /\ call.out.metrics.profit_factor = Zero

\* row j stands before row i when the rows are sorted by execution time
Earlier(trades, j, i) ==
    \/ trades[j].executed_at < trades[i].executed_at
    \/ trades[j].executed_at = trades[i].executed_at /\ j < i

\* the cumulative PnL at row i of the rows sorted by execution time
CumulativeAt(trades, i) ==
    SumOver([j \in DOMAIN trades |-> TradePnl(trades[j])],
            {j \in DOMAIN trades : j = i \/ Earlier(trades, j, i)})

\* the cumulative PnL at row i less the highest cumulative PnL up to row i
DrawdownAt(trades, i) ==
    CumulativeAt(trades, i)
    - MaxOf({CumulativeAt(trades, j) :
                j \in {k \in DOMAIN trades : k = i \/ Earlier(trades, k, i)}})

\* C17: _calculate_max_drawdown_pct returns, over the trades sorted by
\* execution time, |min(cumulative PnL - running maximum)| / 10000 * 100;
\* the value is never negative, and it is 0 when the cumulative PnL never
\* falls from one trade to the next.
C17_MaxDrawdown ==
    DrawdownCall /\ call.args.trades # <<>> =>
        LET trades == call.args.trades
            lowest == MinOf({DrawdownAt(trades, i) : i \in DOMAIN trades})
            value == call.out.max_drawdown_pct
        IN  /\ value.den > 0
            /\ value.num * 10000 = Abs(lowest) * 100 * value.den
            /\ value.num >= 0
            /\ (\A i \in DOMAIN trades :
                   (\E j \in DOMAIN trades : Earlier(trades, j, i))
                       => TradePnl(trades[i]) >= 0)
                   => value.num = 0

\* the ledger hands the later trade first: the sell was executed before
\* the buy, and the drawdown is the buy
C17_Witness ==
    /\ DrawdownCall
    /\ Len(call.args.trades) = 2
    /\ call.args.trades[1].side = "buy"
    /\ call.args.trades[2].side = "sell"
    /\ call.args.trades[1].executed_at > call.args.trades[2].executed_at
    /\ call.out.max_drawdown_pct.num > 0

EmptyInputCall ==
    /\ call.fn \in {"_calculate_performance_metrics", "_calculate_risk_metrics",
                    "_calculate_market_metrics", "_analyze_trading_frequency"}
    /\ call.args.trades = <<>>

\* the record a calculator returned
Returned ==
    IF PerformanceCall THEN call.out.metrics ELSE call.out

\* the fields that are not numbers, and the fields that are integers
LabelFields == {"risk_level"}
IntegerFields == {"total_trades", "profitable_trades", "risk_score"}

\* every number of the record is 0
ZeroValued(record) ==
    \A f \in DOMAIN record \ LabelFields :
        IF f \in IntegerFields THEN record[f] = 0 ELSE record[f] = Zero

\* C18 as stated: on the empty trade list each of the four calculators
\* returns a record of its fields in which every number is 0, never None;
\* the risk record has level low and score 0.
C18_ZeroValuedRecords ==
    EmptyInputCall =>
        /\ Returned # NoneValue
        /\ DOMAIN Returned # {}
        /\ ZeroValued(Returned)
        /\ call.fn = "_calculate_risk_metrics"
               => Returned.risk_level = "low" /\ Returned.risk_score = 0

\* C18: on the empty trade list no calculator returns None;
\* _calculate_performance_metrics and _calculate_risk_metrics return their
\* records with every number 0, the risk record with level low and score 0;
\* _calculate_market_metrics returns the neutral record, every number 0 but
\* beta_to_market, which is 1; _analyze_trading_frequency returns the empty
\* mapping.
C18_EmptyInputRecords ==
    EmptyInputCall =>
        /\ Returned # NoneValue
        /\ call.fn = "_calculate_performance_metrics"
               => /\ DOMAIN Returned # {}
                  /\ ZeroValued(Returned)
        /\ call.fn = "_calculate_risk_metrics"
               => /\ DOMAIN Returned # {}
                  /\ ZeroValued(Returned)
                  /\ Returned.risk_level = "low"
                  /\ Returned.risk_score = 0
        /\ call.fn = "_calculate_market_metrics"
               => /\ Returned.beta_to_market = Rat(1, 1)
                  /\ \A f \in DOMAIN Returned \ {"beta_to_market"} :
                        Returned[f] = Zero
        /\ call.fn = "_analyze_trading_frequency" => Returned = EmptyDict

\* _analyze_trading_frequency was called on the empty list and returned
\* a mapping without entries
C18_Witness ==
    /\ EmptyInputCall
    /\ call.fn = "_analyze_trading_frequency"
    /\ DOMAIN call.out = {}

\* C19: the PnL of a trade is size * price for a sell and -size * price for
\* a buy, the total PnL is the sum, the win rate is 100 * (trades of
\* positive PnL) / (trades); ten trades of size 1, a buy at 100 and a sell
\* at 110 in turn, have the PnL -100, +110, ..., the win rate 50 and the
\* profit factor 550 / 500.
C19_PnlAndWinRate ==
    PerformanceCall /\ call.args.trades # <<>> =>
        LET trades == call.args.trades
            pnl == call.out.pnl
            positive == Cardinality({i \in DOMAIN pnl : pnl[i] > 0})
            win_rate == call.out.metrics.win_rate_pct
        IN  /\ DOMAIN pnl = DOMAIN trades
            /\ \A i \in DOMAIN trades :
                  /\ trades[i].side = "sell"
                         => pnl[i] = trades[i].size * trades[i].price
                  /\ trades[i].side = "buy"
                         => pnl[i] = 0 - trades[i].size * trades[i].price
            /\ call.out.total_pnl = SumOver(pnl, DOMAIN pnl)
            /\ win_rate.num * Len(trades) = 100 * positive * win_rate.den
            /\ trades = AlternatingTrades
                   => /\ \A i \in 1..10 :
                            pnl[i] = IF i % 2 = 1 THEN 0 - 100 ELSE 110
                      /\ RatEq(win_rate, Rat(50, 1))
                      /\ RatEq(call.out.metrics.profit_factor, Rat(550, 500))

\* the ten alternating trades were evaluated
C19_Witness ==
    /\ PerformanceCall
    /\ call.args.trades = AlternatingTrades
    /\ call.out.metrics.total_trades = 10
    /\ call.out.metrics.profitable_trades = 5

\* C20: for a risk tolerance in [0, 1] (in tenths), _generate_optimized_settings
\* gives copy_percentage = min(riskTolerance * 20, 15), max_position_size =
\* 1000 * (1 + riskTolerance), stop_loss = maxDrawdownPct * 0.5, take_profit
\* = targetReturnPct * 0.3, max_trades_per_day = floor(5 * (1 + riskTolerance)),
\* max_consecutive_losses = floor(3 * (2 - riskTolerance)), correlation_limit
\* = 0.8 - riskTolerance * 0.2; tolerance 0, drawdown 10 and target 20 give
\* 0, 5, 6, 5, 6 and 0.8.
C20_OptimizedSettings ==
    SettingsCall =>
        LET rt == call.args.risk_tolerance
            dd == call.args.max_drawdown_pct
            tr == call.args.target_return_pct
            s == call.out
            r == call.out.risk_settings
        IN  /\ s.copy_percentage * 10 = Min(rt * 20, 150)
            /\ s.copy_percentage <= 15
            /\ RatEq(s.max_position_size, Rat(1000 * (10 + rt), 10))
            /\ s.stop_loss_percentage.num * 2 = dd * s.stop_loss_percentage.den
            /\ s.take_profit_percentage.num * 10
                   = tr * 3 * s.take_profit_percentage.den
            /\ r.max_trades_per_day * 10 <= 5 * (10 + rt)
            /\ 5 * (10 + rt) < (r.max_trades_per_day + 1) * 10
            /\ r.max_consecutive_losses * 10 <= 3 * (20 - rt)
            /\ 3 * (20 - rt) < (r.max_consecutive_losses + 1) * 10
            /\ r.correlation_limit.num * 100
                   = (80 - 2 * rt) * r.correlation_limit.den
            /\ (rt = 0 /\ dd = 10 /\ tr = 20)
                   => /\ s.copy_percentage = 0
                      /\ s.stop_loss_percentage = Rat(5, 1)
                      /\ s.take_profit_percentage = Rat(6, 1)
                      /\ r.max_trades_per_day = 5
                      /\ r.max_consecutive_losses = 6
                      /\ r.correlation_limit = Rat(8, 10)

\* a tolerance above 0.75, where the cap of the copy percentage applies
C20_Witness ==
    /\ SettingsCall
    /\ call.args.risk_tolerance = 9
    /\ call.out.copy_percentage = 15
    /\ call.out.risk_settings.max_trades_per_day = 9
    /\ call.out.risk_settings.max_consecutive_losses = 3

AllocationCall == call.fn = "_calculate_portfolio_allocation"

\* C21: for a non-empty leader list, one that names an address more than
\* once included, the weights _calculate_portfolio_allocation returns are
\* each 100 / count and sum to 100; for the empty list it returns the empty
\* mapping.
C21_AllocationSumsTo100 ==
    AllocationCall =>
        LET leaders == call.args.leaders
            allocation == call.out
        IN  IF leaders = <<>> THEN allocation = EmptyDict
            ELSE /\ \A leader \in DOMAIN allocation :
                       RatEq(allocation[leader], Rat(100, Len(leaders)))
                 /\ RatEq(RatSumOver(allocation, DOMAIN allocation), Rat(100, 1))

PortfolioCall == call.fn = "analyze_portfolio"
PortfolioReturned == PortfolioCall /\ call.out.raised = "no"

\* C22: whenever analyze_portfolio returns, the weights it used sum to 1:
\* each is the supplied weight divided by the total of the supplied weights,
\* or 1/len(addresses) when none were supplied; and the allocation returned
\* has exactly the requested addresses as keys and maps each to its
\* normalized weight (the weight of its last position in the list).
C22_NormalizedWeights ==
    PortfolioReturned =>
        LET addresses == call.args.addresses
            supplied == call.args.weights
            total == SumOver(supplied, DOMAIN supplied)
            weights == call.out.weights
            allocation == call.out.value.allocation
        IN  /\ DOMAIN weights = DOMAIN addresses
            /\ RatEq(RatSumOver(weights, DOMAIN weights), Rat(1, 1))
            /\ \A i \in DOMAIN addresses :
                   IF supplied = <<>>
                   THEN weights[i].num * Len(addresses) = weights[i].den
                   ELSE weights[i].num * total = supplied[i] * weights[i].den
            /\ DOMAIN allocation = Range(addresses)
            /\ \A i \in DOMAIN addresses :
                   (\A j \in DOMAIN addresses : addresses[j] = addresses[i] => j <= i)
                       => allocation[addresses[i]] = weights[i]

\* supplied weights 1 and 3 for two addresses became 1/4 and 3/4
C22_Witness ==
    /\ PortfolioReturned
    /\ call.args.addresses = <<"0xA", "0xB">>
    /\ call.args.weights = <<1, 3>>
    /\ call.out.value.allocation["0xA"] = Rat(1, 4)
    /\ call.out.value.allocation["0xB"] = Rat(3, 4)

FacadeCall ==
    call.fn \in {"analyze_leader_performance", "calculate_risk_metrics",
                 "optimize_follower_strategy", "compare_leaders",
                 "analyze_portfolio"}

\* the call is one on missing data: the trade set of the leader, of the
\* follower or of a requested address is empty, or the address list or the
\* weights are empty, or the weights sum to zero
NoDataCall ==
    /\ FacadeCall
    /\ \/ /\ call.fn \in {"analyze_leader_performance", "calculate_risk_metrics"}
          /\ call.args.ledger[call.args.leader_address] = <<>>
       \/ /\ call.fn = "optimize_follower_strategy"
          /\ call.args.trades = <<>>
       \/ /\ call.fn \in {"compare_leaders", "analyze_portfolio"}
          /\ \/ call.args.addresses = <<>>
             \/ \E i \in DOMAIN call.args.addresses :
                    call.args.ledger[call.args.addresses[i]] = <<>>
       \/ /\ call.fn = "analyze_portfolio"
          /\ SumOver(call.args.weights, DOMAIN call.args.weights) = 0

\* C23: no facade operation raises on missing data: a call made with an
\* empty trade set, an empty address list, or weights that are empty or sum
\* to zero returns a value.
C23_FacadeNeverRaises == NoDataCall => call.out.raised = "no"

CompareCall == call.fn = "compare_leaders"

\* what the position i of the address list adds to a portfolio figure: its
\* weight times the figure of its trade set, and nothing without trades
Contribution(i, figure) ==
    LET trades == call.args.ledger[call.args.addresses[i]]
    IN  IF trades = <<>> THEN Zero
        ELSE RatMul(call.out.weights[i],
                    IF figure = "return"
                    THEN CalculatePerformanceMetrics(trades, 30).metrics.total_return_pct
                    ELSE IF figure = "volatility"
                    THEN CalculateRiskMetrics(trades).volatility_pct
                    ELSE CalculateRiskMetrics(trades).max_drawdown_pct)

TotalContribution(figure) ==
    RatSumOver([i \in DOMAIN call.args.addresses |-> Contribution(i, figure)],
               DOMAIN call.args.addresses)

\* C30: in analyze_portfolio an address with no trades keeps its normalized
\* weight in the allocation and adds 0 to the expected return, volatility
\* and maximum drawdown; compare_leaders returns an entry for exactly the
\* requested addresses whose trade set is not empty.
C30_AddressesWithoutTrades ==
    /\ PortfolioReturned =>
           LET addresses == call.args.addresses
               ledger == call.args.ledger
               metrics == call.out.value.portfolio_metrics
           IN  /\ \A i \in DOMAIN addresses :
                      /\ ledger[addresses[i]] = <<>>
                      /\ \A j \in DOMAIN addresses :
                             addresses[j] = addresses[i] => j <= i
                      => /\ addresses[i] \in DOMAIN call.out.value.allocation
                         /\ call.out.value.allocation[addresses[i]]
                                = call.out.weights[i]
               /\ RatEq(metrics.expected_return_pct, TotalContribution("return"))
               /\ RatEq(metrics.expected_volatility_pct,
                        TotalContribution("volatility"))
               /\ RatEq(metrics.max_drawdown_pct, TotalContribution("drawdown"))
               /\ (\A i \in DOMAIN addresses : ledger[addresses[i]] = <<>>)
                      => /\ metrics.expected_return_pct = Zero
                         /\ metrics.expected_volatility_pct = Zero
                         /\ metrics.max_drawdown_pct = Zero
                         /\ metrics.sharpe_ratio = Zero
    /\ CompareCall =>
           /\ call.out.raised = "no"
           /\ DOMAIN call.out.value
                  = {a \in Range(call.args.addresses) : call.args.ledger[a] # <<>>}

\* two addresses were compared, one of them without trades, and the
\* comparison has the other one only
C30_Witness ==
    /\ CompareCall
    /\ call.args.addresses = <<"0xA", "0xB">>
    /\ call.args.ledger["0xA"] = <<>>
    /\ call.args.ledger["0xB"] = BuyThenSell
    /\ DOMAIN call.out.value = {"0xB"}

FeaturesCall == call.fn = "_extract_features"

\* C24: every feature _extract_features returns is a defined number: the
\* volatility and the momentum of a history whose trades fall on a single
\* day are numbers (0), not NaN.
C24_FeaturesDefined ==
    FeaturesCall /\ call.out.present =>
        /\ call.out.volatility.defined
        /\ call.out.momentum_finite

(***************************************************************************)
(* The job tracker under fair scheduling: the event loop resumes every     *)
(* activation of execute_backtest suspended at asyncio.sleep(5), whose     *)
(* timer fires, so the step after the delay (the rest of the try block or  *)
(* the except branch) is eventually taken.  An activation that is never    *)
(* started is not forced to start.                                         *)
(***************************************************************************)
SpecJobsLive ==
    /\ Init
    /\ [][NextJobs]_vars
    /\ \A a \in Activations : WF_vars(SleepReturns(a) \/ SleepRaises(a))

JobStatus(id) ==
    IF id \in DOMAIN active_backtests THEN active_backtests[id].status
    ELSE "unknown"

\* C25: under fair scheduling every job on which execute_backtest is invoked
\* eventually is completed or failed: a job with an activation suspended at
\* the delay, or with the status running, leads to a terminal status.
C25_EventuallyTerminal ==
    \A id \in JobIds :
        (Sleeping(id) # {} \/ JobStatus(id) = "running")
            ~> (JobStatus(id) \in Terminal)

\* an execution whose delay raised has returned and its job is failed
C25_Witness ==
    \E a \in Activations :
        /\ execs[a].pc = "done"
        /\ JobStatus(execs[a].id) = "failed"
        /\ Sleeping(execs[a].id) = {}

\* C26: in every reachable state of the job table, a running job has
\* started_at; a completed job has started_at, completed_at and results; a
\* failed job has error; a queued job has none of the four.
C26_FieldsOfStatus ==
    \A id \in DOMAIN active_backtests :
        LET job == active_backtests[id]
        IN  /\ job.status \in {"queued", "running", "completed", "failed"}
            /\ job.status = "running" => job.started_at # NoTime
            /\ job.status = "completed" =>
                   /\ job.started_at # NoTime
                   /\ job.completed_at # NoTime
                   /\ job.results # Absent
            /\ job.status = "failed" => job.error # Absent
            /\ job.status = "queued" =>
                   /\ job.started_at = NoTime
                   /\ job.completed_at = NoTime
                   /\ job.results = Absent
                   /\ job.error = Absent

\* a running job with its start time beside a queued job with nothing set
C26_Witness ==
    \E i, j \in DOMAIN active_backtests :
        /\ active_backtests[i].status = "running"
        /\ active_backtests[i].started_at # NoTime
        /\ active_backtests[i].completed_at = NoTime
        /\ active_backtests[j].status = "queued"
        /\ active_backtests[j].started_at = NoTime

\* C27: progress is 0 when the job is created and no transition changes it;
\* a completed job still has progress 0.
C27_ProgressStaysZero ==
    /\ [](\A id \in DOMAIN active_backtests : active_backtests[id].progress = 0)
    /\ [][\A id \in DOMAIN active_backtests :
              active_backtests'[id].progress = active_backtests[id].progress]_vars

\* a completed job, its results stored, with progress 0
C27_Witness ==
    \E id \in DOMAIN active_backtests :
        /\ active_backtests[id].status = "completed"
        /\ active_backtests[id].results = MockResults
        /\ active_backtests[id].progress = 0

\* retrain_models has not been called on predictor p
NeverRetrained(p) ==
    \A t \in Tasks : ~(tasks[t].op = "retrain" /\ tasks[t].p = p)

\* the predict calls on p that started training
Trainers(p) ==
    {t \in Tasks : tasks[t].op = "predict" /\ tasks[t].p = p
                   /\ tasks[t].trained_here}

\* C28: on a predictor on which retrain_models is never called, training
\* runs at most once over any interleaving of predict calls: at most one
\* call starts it, a call rejected by the 20-trade gate never does, and once
\* is_trained is true no step starts training, replaces the bundle or resets
\* the flag.
C28_TrainsAtMostOnce ==
    /\ [](\A p \in Predictors :
              NeverRetrained(p) =>
                  /\ Cardinality(Trainers(p)) <= 1
                  /\ \A t \in Tasks :
                         ( /\ tasks[t].op = "predict" /\ tasks[t].p = p
                           /\ tasks[t].pc = "done"
                           /\ BelowGate(TradesOf(tasks[t].hist)) )
                         => t \notin Trainers(p))
    /\ [][\A p \in Predictors :
              ( /\ is_trained[p]
                /\ \A t \in Tasks : ~(tasks'[t].op = "retrain" /\ tasks'[t].p = p) )
              => /\ is_trained'[p]
                 /\ <<models'[p], scalers'[p], feature_importance'[p],
                      model_versions'[p]>> = Bundle(p)
                 /\ \A t \in Tasks :
                        (tasks'[t].op = "predict" /\ tasks'[t].p = p
                            /\ tasks'[t].trained_here)
                        => t \in Trainers(p)]_vars

\* two predict calls on one predictor passed the gate and returned, and
\* only one of them trained
C28_Witness ==
    \E t, u \in Tasks :
        /\ t # u
        /\ tasks[t].op = "predict" /\ tasks[u].op = "predict"
        /\ tasks[t].p = tasks[u].p
        /\ tasks[t].pc = "done" /\ tasks[u].pc = "done"
        /\ ~BelowGate(TradesOf(tasks[t].hist))
        /\ ~BelowGate(TradesOf(tasks[u].hist))
        /\ tasks[t].trained_here /\ ~tasks[u].trained_here

HealthCall == call.fn = "health_check"

\* C29: AnalyticsEngine.health_check reports ml_models = false in every
\* reachable state, whether or not the shared predictor has been trained.
C29_MlModelsUnhealthy == HealthCall => call.out.ml_models = FALSE

\* the check ran to its end on a healthy database while the shared
\* predictor was trained, and reports ml_models false
C29_Witness ==
    /\ HealthCall
    /\ call.pc = "done"
    /\ call.out.database
    /\ is_trained["api"]
    /\ ~call.out.ml_models

====
